---- MODULE Spec2Model ----
(***************************************************************************)
(* Station-Manager/server: the request authentication pipeline, the        *)
(* provisioning transaction and the in-memory LRU logbook cache of         *)
(* package service.                                                        *)
(*                                                                         *)
(* Time is counted in minutes.  Pointers to lruNode are modelled by the    *)
(* key the node was allocated for (Set allocates one node per new key and  *)
(* the node dies with its map entry); the nil pointer is Nil.              *)
(***************************************************************************)
EXTENDS Integers, Sequences, FiniteSets, TLC

(***************************************************************************)
(* Bounds of the model.                                                    *)
(***************************************************************************)
MaxCap == 2
MaxTime == 2
NumRequests == 2

(***************************************************************************)
(* Program constants.                                                      *)
(***************************************************************************)
defaultLogbookCacheTTL == 5

Nil == 0
emptyString == ""

VARIABLES
    cache,      \* the inMemoryLogbookCache: entries, nodes, head, tail, maxEntries
    now,        \* time.Now(), in minutes
    recency,    \* history: resident keys by their last successful Get or Set, newest first
    last,       \* history: the last direct call of the cache, what it found and did,
                \* and what Set stored for each key that is still resident
    req,        \* per request: its goroutine's position, its requestContext and its locals
    logbooks,   \* storage: the committed rows of table logbook
    apiKeys,    \* storage: the committed rows of table api_keys
    qsos,       \* storage: the committed rows of table qso
    tx,         \* storage: per request, its transaction and the rows written in it
    nextID,     \* storage: the logbook id sequence
    opt         \* the optimizedInMemoryLogbookCache given the same direct calls as
                \* cache, and what its last Get returned

cacheVars == <<cache, now, recency, last, opt>>
dbVars == <<logbooks, apiKeys, qsos, tx, nextID>>
vars == <<cache, now, recency, last, req, logbooks, apiKeys, qsos, tx, nextID, opt>>

(***************************************************************************)
(* types.Logbook, as far as the service reads it.                          *)
(***************************************************************************)
Logbook(id, callsign, name, userID) ==
    [ID |-> id, Callsign |-> callsign, Name |-> name, UserID |-> userID]

EmptyLogbook == Logbook(0, emptyString, emptyString, 0)

\* The ids the direct cache calls use.
CacheKeys == {1, 2, 3}

\* The logbook snapshots the direct cache calls store.
CacheValues == { Logbook(1, "W1AW", "n1", 1), Logbook(2, "K2UN", "n2", 2) }

\* The ttl arguments the direct cache calls pass (minutes; -1 is any negative ttl).
TTLChoices == {-1, 0, 1, defaultLogbookCacheTTL}

(***************************************************************************)
(* Helpers on finite maps.                                                 *)
(***************************************************************************)
MapPut(f, k, v) == [x \in (DOMAIN f) \cup {k} |-> IF x = k THEN v ELSE f[x]]

MapDel(f, k) == [x \in (DOMAIN f) \ {k} |-> f[x]]

EmptyMap == [x \in {} |-> 0]

(***************************************************************************)
(* The LRU cache.                                                          *)
(***************************************************************************)
newInMemoryLogbookCache(maxEntries) ==
    [isNil |-> FALSE, entries |-> EmptyMap, nodes |-> EmptyMap, maxEntries |-> maxEntries,
     head |-> Nil, tail |-> Nil]

\* var cache *inMemoryLogbookCache: the nil reference.
NilCache ==
    [isNil |-> TRUE, entries |-> EmptyMap, nodes |-> EmptyMap, maxEntries |-> 0,
     head |-> Nil, tail |-> Nil]

\* addToFrontLocked adds a node to the front (most recently used position).
addToFrontLocked(c, node) ==
    IF node = Nil THEN c
    ELSE LET n1 == [c.nodes[node] EXCEPT !.next = c.head, !.prev = Nil]
             ns1 == [c.nodes EXCEPT ![node] = n1]
             ns2 == IF c.head # Nil
                    THEN [ns1 EXCEPT ![c.head].prev = node]
                    ELSE ns1
         IN [c EXCEPT !.nodes = ns2,
                      !.head = node,
                      !.tail = IF c.tail = Nil THEN node ELSE c.tail]

\* Variant of removeNodeLocked that leaves the successor's prev pointing at the
\* unlinked node.
removeNodeLockedHalf(c, node) ==
    IF node = Nil THEN c
    ELSE LET n == c.nodes[node]
             c1 == IF n.prev # Nil
                   THEN [c EXCEPT !.nodes[n.prev].next = n.next]
                   ELSE [c EXCEPT !.head = n.next]
         IN IF n.next # Nil
            THEN c1
            ELSE [c1 EXCEPT !.tail = n.prev]

\* removeNodeLocked unlinks a node from the LRU list (the node keeps its own links).
removeNodeLocked(c, node) ==
    IF node = Nil THEN c
    ELSE LET n == c.nodes[node]
             c1 == IF n.prev # Nil
                   THEN [c EXCEPT !.nodes[n.prev].next = n.next]
                   ELSE [c EXCEPT !.head = n.next]
         IN IF n.next # Nil
            THEN [c1 EXCEPT !.nodes[n.next].prev = n.prev]
            ELSE [c1 EXCEPT !.tail = n.prev]

\* removeLocked removes an entry from the map and its node from the list.
removeLocked(c, id) ==
    IF id \notin DOMAIN c.entries THEN c
    ELSE LET node == c.entries[id].prev
             c1 == removeNodeLocked(c, node)
         IN [c1 EXCEPT !.entries = MapDel(c1.entries, id),
                       !.nodes = MapDel(c1.nodes, node)]

\* Variant of moveToFrontLocked that leaves the node where it is.
moveToFrontLockedNot(c, id) == c

\* moveToFrontLocked moves the entry's node to the front of the LRU list.
moveToFrontLocked(c, id) ==
    LET node == c.entries[id].prev
    IN IF node = Nil \/ node = c.head THEN c
       ELSE addToFrontLocked(removeNodeLocked(c, node), node)

\* Variant of Get that does not look at the expiry.
GetNoExpiry(c, id, t) ==
    IF c.isNil THEN [c |-> c, value |-> EmptyLogbook, ok |-> FALSE]
    ELSE IF id \notin DOMAIN c.entries
    THEN [c |-> c, value |-> EmptyLogbook, ok |-> FALSE]
    ELSE [c |-> moveToFrontLocked(c, id), value |-> c.entries[id].value, ok |-> TRUE]

\* Variant of Get that answers a miss with the most recently used entry.
GetAnyEntry(c, id, t) ==
    IF c.isNil THEN [c |-> c, value |-> EmptyLogbook, ok |-> FALSE]
    ELSE IF id \notin DOMAIN c.entries
    THEN IF c.head = Nil \/ c.head \notin DOMAIN c.nodes
              \/ c.nodes[c.head].key \notin DOMAIN c.entries
         THEN [c |-> c, value |-> EmptyLogbook, ok |-> FALSE]
         ELSE [c |-> c, value |-> c.entries[c.nodes[c.head].key].value, ok |-> TRUE]
    ELSE IF t > c.entries[id].expiresAt
         THEN [c |-> removeLocked(c, id), value |-> EmptyLogbook, ok |-> FALSE]
         ELSE [c |-> moveToFrontLocked(c, id), value |-> c.entries[id].value, ok |-> TRUE]

\* Get: the cache afterwards, the value returned and whether it was found.
Get(c, id, t) ==
    IF c.isNil THEN [c |-> c, value |-> EmptyLogbook, ok |-> FALSE]
    ELSE IF id \notin DOMAIN c.entries
    THEN [c |-> c, value |-> EmptyLogbook, ok |-> FALSE]
    ELSE IF t > c.entries[id].expiresAt
         THEN [c |-> removeLocked(c, id), value |-> EmptyLogbook, ok |-> FALSE]
         ELSE [c |-> moveToFrontLocked(c, id), value |-> c.entries[id].value, ok |-> TRUE]

\* Variant of the eviction step that lets the table grow one past capacity.
EvictIfOverFull(c) ==
    IF c.maxEntries > 0 /\ Cardinality(DOMAIN c.entries) > c.maxEntries
    THEN IF c.tail # Nil THEN removeLocked(c, c.nodes[c.tail].key) ELSE c
    ELSE c

\* Variant of the eviction step that drops the most recently used entry.
EvictHeadIfFull(c) ==
    IF c.maxEntries > 0 /\ Cardinality(DOMAIN c.entries) >= c.maxEntries
    THEN IF c.head # Nil THEN removeLocked(c, c.nodes[c.head].key) ELSE c
    ELSE c

\* Variant of the eviction step that reads every maxEntries as a limit.
EvictIfFullAnyLimit(c) ==
    IF Cardinality(DOMAIN c.entries) >= c.maxEntries
    THEN IF c.tail # Nil THEN removeLocked(c, c.nodes[c.tail].key) ELSE c
    ELSE c

\* The eviction step of Set: drop the tail's entry when the table is at capacity.
EvictIfFull(c) ==
    IF c.maxEntries > 0 /\ Cardinality(DOMAIN c.entries) >= c.maxEntries
    THEN IF c.tail # Nil THEN removeLocked(c, c.nodes[c.tail].key) ELSE c
    ELSE c

\* Variant of the ttl rule that stores the ttl as given.
effectiveTTLAsGiven(ttlArg) == ttlArg

\* Variant of the ttl rule that replaces only a zero ttl.
effectiveTTLZeroOnly(ttlArg) == IF ttlArg = 0 THEN defaultLogbookCacheTTL ELSE ttlArg

\* Set: a ttl that is zero or negative is replaced by the default.
effectiveTTL(ttlArg) == IF ttlArg <= 0 THEN defaultLogbookCacheTTL ELSE ttlArg

\* Variant of Set that makes room before it looks for the key.
SetEvictFirst(c, id, lb, ttlArg, t) ==
    LET ttl == effectiveTTL(ttlArg)
        c1 == EvictIfFull(c)
    IN IF id \in DOMAIN c1.entries
       THEN moveToFrontLocked(
                [c1 EXCEPT !.entries[id].value = lb, !.entries[id].expiresAt = t + ttl], id)
       ELSE addToFrontLocked(
                [c1 EXCEPT
                   !.entries = MapPut(c1.entries, id,
                                  [value |-> lb, expiresAt |-> t + ttl,
                                   prev |-> id, next |-> id]),
                   !.nodes = MapPut(c1.nodes, id,
                                  [key |-> id, prev |-> Nil, next |-> Nil])], id)

\* Variant of Set without the test for the nil receiver.
SetNoNilCheck(c, id, lb, ttlArg, t) ==
    LET ttl == effectiveTTL(ttlArg)
    IN IF id \in DOMAIN c.entries
       THEN moveToFrontLocked(
                [c EXCEPT !.entries[id].value = lb, !.entries[id].expiresAt = t + ttl], id)
       ELSE LET c1 == EvictIfFull(c)
            IN addToFrontLocked(
                   [c1 EXCEPT
                      !.entries = MapPut(c1.entries, id,
                                     [value |-> lb, expiresAt |-> t + ttl,
                                      prev |-> id, next |-> id]),
                      !.nodes = MapPut(c1.nodes, id,
                                     [key |-> id, prev |-> Nil, next |-> Nil])], id)


\* Variant of Set whose eviction prefers an entry that has already expired.
SetEvictsExpiredFirst(c, id, lb, ttlArg, t) ==
    LET ttl == effectiveTTL(ttlArg)
        dead == {k \in DOMAIN c.entries : t > c.entries[k].expiresAt}
    IN IF c.isNil THEN c
       ELSE IF id \in DOMAIN c.entries
       THEN moveToFrontLocked(
                [c EXCEPT !.entries[id].value = lb, !.entries[id].expiresAt = t + ttl], id)
       ELSE LET c1 == IF c.maxEntries > 0
                         /\ Cardinality(DOMAIN c.entries) >= c.maxEntries
                      THEN IF dead # {} THEN removeLocked(c, CHOOSE k \in dead : TRUE)
                           ELSE IF c.tail # Nil
                           THEN removeLocked(c, c.nodes[c.tail].key)
                           ELSE c
                      ELSE c
                c2 == [c1 EXCEPT
                         !.entries = MapPut(c1.entries, id,
                                        [value |-> lb, expiresAt |-> t + ttl,
                                         prev |-> id, next |-> id]),
                         !.nodes = MapPut(c1.nodes, id,
                                        [key |-> id, prev |-> Nil, next |-> Nil])]
            IN addToFrontLocked(c2, id)

\* Set: the cache afterwards.
Set(c, id, lb, ttlArg, t) ==
    LET ttl == effectiveTTL(ttlArg)
    IN IF c.isNil THEN c
       ELSE IF id \in DOMAIN c.entries
       THEN moveToFrontLocked(
                [c EXCEPT !.entries[id].value = lb, !.entries[id].expiresAt = t + ttl], id)
       ELSE LET c1 == EvictIfFull(c)
                c2 == [c1 EXCEPT
                         !.entries = MapPut(c1.entries, id,
                                        [value |-> lb, expiresAt |-> t + ttl,
                                         prev |-> id, next |-> id]),
                         !.nodes = MapPut(c1.nodes, id,
                                        [key |-> id, prev |-> Nil, next |-> Nil])]
            IN addToFrontLocked(c2, id)

(***************************************************************************)
(* The optimized LRU cache: entry and list node are one structure, and a   *)
(* pointer to an entry is modelled by the entry's key.                     *)
(***************************************************************************)
newOptimizedInMemoryLogbookCache(maxEntries) ==
    [isNil |-> FALSE, entries |-> EmptyMap, maxEntries |-> maxEntries,
     head |-> Nil, tail |-> Nil]

\* optimizedInMemoryLogbookCache.removeLocked
optimizedRemoveLocked(c, entry) ==
    IF entry = Nil THEN c
    ELSE LET e == c.entries[entry]
             c1 == IF e.prev # Nil
                   THEN [c EXCEPT !.entries[e.prev].next = e.next]
                   ELSE [c EXCEPT !.head = e.next]
             c2 == IF e.next # Nil
                   THEN [c1 EXCEPT !.entries[e.next].prev = e.prev]
                   ELSE [c1 EXCEPT !.tail = e.prev]
         IN [c2 EXCEPT !.entries = MapDel(c2.entries, e.key)]

\* optimizedInMemoryLogbookCache.addToFrontLocked
optimizedAddToFrontLocked(c, entry) ==
    IF entry = Nil THEN c
    ELSE LET c1 == [c EXCEPT !.entries[entry].next = c.head,
                             !.entries[entry].prev = Nil]
             c2 == IF c.head # Nil
                   THEN [c1 EXCEPT !.entries[c.head].prev = entry]
                   ELSE c1
         IN [c2 EXCEPT !.head = entry,
                       !.tail = IF c.tail = Nil THEN entry ELSE c.tail]

\* Variant of the optimized moveToFrontLocked that takes the fast path always.
optimizedMoveToFrontLockedNot(c, entry) == c

\* optimizedInMemoryLogbookCache.moveToFrontLocked
optimizedMoveToFrontLocked(c, entry) ==
    IF entry = Nil \/ entry = c.head THEN c
    ELSE LET e == c.entries[entry]
             c1 == IF e.prev # Nil
                   THEN [c EXCEPT !.entries[e.prev].next = e.next]
                   ELSE c
             c2 == IF e.next # Nil
                   THEN [c1 EXCEPT !.entries[e.next].prev = e.prev]
                   ELSE [c1 EXCEPT !.tail = e.prev]
             c3 == [c2 EXCEPT !.entries[entry].next = c2.head,
                              !.entries[entry].prev = Nil]
             c4 == IF c3.head # Nil
                   THEN [c3 EXCEPT !.entries[c3.head].prev = entry]
                   ELSE c3
         IN [c4 EXCEPT !.head = entry]

\* optimizedInMemoryLogbookCache.Get
optimizedGet(c, id, t) ==
    IF c.isNil THEN [c |-> c, value |-> EmptyLogbook, ok |-> FALSE]
    ELSE IF id \notin DOMAIN c.entries
    THEN [c |-> c, value |-> EmptyLogbook, ok |-> FALSE]
    ELSE IF t > c.entries[id].expiresAt
    THEN [c |-> optimizedRemoveLocked(c, id), value |-> EmptyLogbook, ok |-> FALSE]
    ELSE IF id = c.head
    THEN [c |-> c, value |-> c.entries[id].value, ok |-> TRUE]
    ELSE [c |-> optimizedMoveToFrontLocked(c, id), value |-> c.entries[id].value,
          ok |-> TRUE]

\* optimizedInMemoryLogbookCache.Set
optimizedSet(c, id, lb, ttlArg, t) ==
    LET ttl == IF ttlArg <= 0 THEN defaultLogbookCacheTTL ELSE ttlArg
    IN IF c.isNil THEN c
       ELSE IF id \in DOMAIN c.entries
       THEN LET c1 == [c EXCEPT !.entries[id].value = lb,
                                !.entries[id].expiresAt = t + ttl]
            IN IF id # c1.head THEN optimizedMoveToFrontLocked(c1, id) ELSE c1
       ELSE LET c1 == IF c.maxEntries > 0 /\ Cardinality(DOMAIN c.entries) >= c.maxEntries
                      THEN IF c.tail # Nil THEN optimizedRemoveLocked(c, c.tail) ELSE c
                      ELSE c
                c2 == [c1 EXCEPT !.entries =
                          MapPut(c1.entries, id,
                                 [key |-> id, value |-> lb, expiresAt |-> t + ttl,
                                  prev |-> Nil, next |-> Nil])]
            IN optimizedAddToFrontLocked(c2, id)

\* optimizedInMemoryLogbookCache.Invalidate
optimizedInvalidate(c, id) ==
    IF c.isNil THEN c
    ELSE IF id \in DOMAIN c.entries THEN optimizedRemoveLocked(c, id)
    ELSE c

\* The keys of the optimized cache's recency list, walked from head along next.
RECURSIVE optimizedWalk(_, _, _)
optimizedWalk(c, entry, fuel) ==
    IF entry = Nil \/ fuel = 0 \/ entry \notin DOMAIN c.entries THEN <<>>
    ELSE <<c.entries[entry].key>> \o optimizedWalk(c, c.entries[entry].next, fuel - 1)

optimizedListKeys(c) == optimizedWalk(c, c.head, Cardinality(DOMAIN c.entries) + 1)

\* Variant of Invalidate that unlinks a zero node when the key is absent.
InvalidateUnchecked(c, id) ==
    IF c.isNil THEN c
    ELSE IF id \notin DOMAIN c.entries THEN [c EXCEPT !.head = Nil, !.tail = Nil]
    ELSE removeLocked(c, id)

\* Invalidate: the cache afterwards.
Invalidate(c, id) == IF c.isNil THEN c ELSE removeLocked(c, id)

(***************************************************************************)
(* History of use: the resident keys, most recently used first.            *)
(***************************************************************************)
Resident(c) == DOMAIN c.entries

Surviving(rec, c) == SelectSeq(rec, LAMBDA k : k \in Resident(c))

Touched(rec, c, id) == <<id>> \o SelectSeq(rec, LAMBDA k : k \in Resident(c) /\ k # id)

\* The keys of the recency list, walked from head along next.
RECURSIVE Walk(_, _, _)
Walk(c, node, fuel) ==
    IF node = Nil \/ fuel = 0 \/ node \notin DOMAIN c.nodes THEN <<>>
    ELSE <<c.nodes[node].key>> \o Walk(c, c.nodes[node].next, fuel - 1)

ListKeys(c) == Walk(c, c.head, Cardinality(DOMAIN c.nodes) + 1)

(***************************************************************************)
(* Strings that are taken apart (the Key field, digests, message bodies)   *)
(* are sequences of tokens; "." is the separator of prefix and secret.     *)
(***************************************************************************)
EmptyKey == <<>>
Sep == "."

\* apikey.ParseApiKey: exactly one separator, a non-empty prefix and a non-empty secret.
ParseApiKey(fullKey) ==
    LET ps == {i \in 1..Len(fullKey) : fullKey[i] = Sep}
        bad == [err |-> TRUE, prefix |-> <<>>, secret |-> <<>>]
    IN IF Cardinality(ps) # 1 THEN bad
       ELSE LET i == CHOOSE j \in ps : TRUE
            IN IF i = 1 \/ i = Len(fullKey) THEN bad
               ELSE [err |-> FALSE,
                     prefix |-> SubSeq(fullKey, 1, i - 1),
                     secret |-> SubSeq(fullKey, i + 1, Len(fullKey))]

\* The digest of a secret, as GenerateApiKey stores it.
Digest(secret) == <<"sha512">> \o secret

\* apikey.ValidateApiKey(fullKey, keyHash)
ValidateApiKey(fullKey, keyHash) ==
    LET p == ParseApiKey(fullKey)
    IN IF p.err THEN [valid |-> FALSE, err |-> TRUE]
       ELSE [valid |-> Digest(p.secret) = keyHash, err |-> FALSE]

\* The stored form of a password.
HashPassword(pass) == <<"argon2id">> \o pass

\* apikey.VerifyPassword(hash, pass): an error on a hash that is no encoded hash.
VerifyPassword(hash, pass) ==
    IF Len(hash) = 0 \/ hash[1] # "argon2id"
    THEN [valid |-> FALSE, err |-> TRUE]
    ELSE [valid |-> hash = HashPassword(pass), err |-> FALSE]

\* apikey.GenerateApiKey: the key drawn for request r (fresh for every request).
GenPrefix(r) == <<"g">> \o [i \in 1..r |-> "1"]
GenSecret(r) == <<"x">> \o [i \in 1..r |-> "1"]
GenerateApiKey(r) ==
    [fullKey |-> GenPrefix(r) \o <<Sep>> \o GenSecret(r),
     prefix |-> GenPrefix(r),
     hash |-> Digest(GenSecret(r))]

(***************************************************************************)
(* Records of the request and of storage.                                  *)
(***************************************************************************)
NullTime == -1

NilUser == [nil |-> TRUE, ID |-> 0, Callsign |-> emptyString, PassHash |-> <<>>,
            EmailConfirmed |-> FALSE]

User(id, callsign, hash, confirmed) ==
    [nil |-> FALSE, ID |-> id, Callsign |-> callsign, PassHash |-> hash,
     EmailConfirmed |-> confirmed]

\* A *types.Logbook: nil, or a pointer to v.
NilLb == [nil |-> TRUE, v |-> EmptyLogbook]
PtrLb(v) == [nil |-> FALSE, v |-> v]

EmptyQso == [StationCallsign |-> emptyString, Call |-> emptyString, LogbookID |-> 0]
NilQso == [nil |-> TRUE, v |-> EmptyQso]
PtrQso(v) == [nil |-> FALSE, v |-> v]

\* types.PostRequest
PostRequest(callsign, key, logbook, qso) ==
    [Action |-> emptyString, Callsign |-> callsign, Key |-> key, Logbook |-> logbook,
     Qso |-> qso]

\* types.RequestAction: the two action kinds, and values that are none of them.
RegisterLogbookAction == "RegisterLogbookAction"
InsertQsoAction == "InsertQsoAction"
Actions == {emptyString, RegisterLogbookAction, InsertQsoAction, "DeleteQsoAction"}

EmptyRequest == PostRequest(emptyString, EmptyKey, NilLb, NilQso)

\* requestContext; stored tells whether it was put in the request's locals.
NoContext ==
    [stored |-> FALSE, Request |-> EmptyRequest, User |-> NilUser, Logbook |-> NilLb,
     IsValid |-> FALSE]

\* The rows of table users.
users ==
    { User(1, "W1AW", HashPassword(<<"pw1">>), TRUE),
      User(2, "K2UN", HashPassword(<<"pw1">>), FALSE),
      User(3, "N3EH", <<>>, TRUE),
      User(4, "G4BAD", <<"plain">>, TRUE) }

LogbookRow(id, name, callsign, userID, by) ==
    [ID |-> id, Name |-> name, Callsign |-> callsign, UserID |-> userID, by |-> by]

ApiKeyRow(prefix, hash, logbookID, revokedAt, expiresAt, by) ==
    [Prefix |-> prefix, KeyHash |-> hash, LogbookID |-> logbookID,
     RevokedAt |-> revokedAt, ExpiresAt |-> expiresAt, by |-> by]

\* The rows storage holds when the service starts.
InitLogbooks ==
    { LogbookRow(1, "Home", "W1AW", 1, 0), LogbookRow(2, "Club", "K2UN", 2, 0) }

InitApiKeys ==
    { ApiKeyRow(<<"p1">>, Digest(<<"s1">>), 1, NullTime, NullTime, 0),
      ApiKeyRow(<<"p2">>, Digest(<<"s2">>), 1, 0, NullTime, 0),
      ApiKeyRow(<<"p3">>, Digest(<<"s3">>), 2, NullTime, 0, 0),
      ApiKeyRow(<<"p0">>, Digest(<<"s0">>), 0, NullTime, NullTime, 0),
      ApiKeyRow(<<"p4">>, Digest(<<"s4">>), 9, NullTime, NullTime, 0) }

FirstLogbookID == 3

\* An ApiKeyRecord is active iff it is not revoked and not expired.
IsActive(row, t) ==
    /\ row.RevokedAt = NullTime
    /\ row.ExpiresAt = NullTime \/ row.ExpiresAt > t

Requests == 1..NumRequests

\* What clients send.
Callsigns == {emptyString, "W1AW", "K2UN", "N3EH", "G4BAD", "XX0X"}

Passwords == {EmptyKey, <<"pw1">>, <<"bad">>}

FullKeys ==
    { EmptyKey,
      <<"p1", Sep, "s1">>, <<"p1", Sep, "sX">>, <<"p9", Sep, "s1">>, <<"p1", "s1">>,
      <<"p2", Sep, "s2">>, <<"p3", Sep, "s3">>, <<"p0", Sep, "s0">>,
      <<"p4", Sep, "s4">> }
    \cup { GenerateApiKey(r).fullKey : r \in Requests }

LogbookPayloads ==
    { NilLb,
      PtrLb(Logbook(0, "W1AW", emptyString, 7)),
      PtrLb(Logbook(0, "W1AW", "HF", 7)),
      PtrLb(Logbook(0, "W1AW", "VHF", 0)) }

QsoPayloads ==
    { NilQso,
      PtrQso([StationCallsign |-> "W1AW", Call |-> "DX1", LogbookID |-> 2]),
      PtrQso([StationCallsign |-> "K2UN", Call |-> "DX1", LogbookID |-> 1]),
      PtrQso([StationCallsign |-> "W1AW", Call |-> emptyString, LogbookID |-> 1]) }

\* validator: what s.validate.Struct requires of the payloads.
ValidLogbook(lb) == lb.Name # emptyString /\ lb.Callsign # emptyString
ValidQso(q) == q.Call # emptyString /\ q.StationCallsign # emptyString

(***************************************************************************)
(* Responses.                                                              *)
(***************************************************************************)
StatusCreated == 201
StatusBadRequest == 400
StatusUnauthorized == 401
StatusInternalServerError == 500

jsonUnauthorized == <<"Unauthorized">>
jsonInternalError == <<"Internal error">>
jsonBadRequest == <<"Bad request">>
jsonCallsignMismatch == <<"QSO callsign does not match the Logbook's callsign">>
jsonQsoCreated == <<"QSO Created">>

Response(status, message) == [status |-> status, message |-> message]
NoResponse == Response(0, <<>>)

(***************************************************************************)
(* History kept per request for the properties: what is true of the        *)
(* presented credential, decided from storage and not by the middleware.   *)
(***************************************************************************)
NoTruth ==
    [path |-> "none", envelope |-> FALSE, lookupErr |-> FALSE, found |-> FALSE,
     confirmed |-> FALSE, hashEmpty |-> FALSE, match |-> FALSE, malformed |-> FALSE,
     idZero |-> FALSE, active |-> FALSE, logbookID |-> 0,
     validKey |-> FALSE, validPassword |-> FALSE]

\* key is a full API key whose prefix is stored with the digest of its secret.
IsStoredKey(key) ==
    LET p == ParseApiKey(key)
    IN ~p.err /\ \E k \in apiKeys :
                    k.Prefix = p.prefix /\ k.KeyHash = Digest(p.secret) /\ k.LogbookID # 0

\* key is the password of the confirmed account of callsign.
IsAccountPassword(callsign, key) ==
    key # EmptyKey /\ \E u \in users :
        u.Callsign = callsign /\ u.EmailConfirmed /\ u.PassHash = HashPassword(key)

TruthPassword(callsign, key, dbErr) ==
    LET us == {u \in users : u.Callsign = callsign}
        u == IF us = {} THEN NilUser ELSE CHOOSE x \in us : TRUE
    IN [NoTruth EXCEPT
          !.path = "password",
          !.envelope = callsign # emptyString /\ key # EmptyKey,
          !.lookupErr = dbErr,
          !.found = us # {},
          !.confirmed = u.EmailConfirmed,
          !.hashEmpty = (u.PassHash = <<>>),
          !.match = (key # EmptyKey /\ u.PassHash = HashPassword(key)),
          !.validKey = IsStoredKey(key),
          !.validPassword = IsAccountPassword(callsign, key)]

TruthKey(callsign, key, keys, dbErr, t) ==
    LET p == ParseApiKey(key)
        rows == IF p.err THEN {} ELSE {k \in keys : k.Prefix = p.prefix}
        row == IF rows = {} THEN ApiKeyRow(<<>>, <<>>, 0, NullTime, NullTime, 0)
               ELSE CHOOSE k \in rows : TRUE
    IN [NoTruth EXCEPT
          !.path = "key",
          !.envelope = callsign # emptyString /\ key # EmptyKey,
          !.lookupErr = dbErr,
          !.found = rows # {},
          !.match = (rows # {} /\ row.KeyHash = Digest(p.secret)),
          !.malformed = p.err,
          !.idZero = (rows # {} /\ row.LogbookID = 0),
          !.logbookID = row.LogbookID,
          !.validKey = IsStoredKey(key),
          !.validPassword = IsAccountPassword(callsign, key),
          !.active = (rows # {} /\ IsActive(row, t))]

\* History: how often the request went to the cache, to the logbook table, to the
\* users or api_keys table (lookups) and to a password or digest check (verifies),
\* and how often its handler called each step of the provisioning.
ZeroCalls ==
    [cacheGet |-> 0, cacheSet |-> 0, fetchLogbook |-> 0, lookups |-> 0, verifies |-> 0,
     beginTx |-> 0, insertLogbook |-> 0, generateKey |-> 0, insertAPIKey |-> 0,
     commit |-> 0]

IdleRequest ==
    [pc |-> "idle", route |-> "none", ctx |-> NoContext, logbookId |-> 0,
     lb |-> EmptyLogbook, fullKey |-> EmptyKey, resp |-> NoResponse, retErr |-> FALSE,
     truth |-> NoTruth, handlerRan |-> FALSE, resolveFailed |-> FALSE,
     calls |-> ZeroCalls, exit |-> "none", name |-> emptyString,
     victim |-> 0, then |-> "none", action |-> emptyString, trail |-> <<>>,
     holds |-> FALSE, caller |-> "none", hit |-> FALSE, fault |-> FALSE,
     cancelledAt |-> "none", expiresAt |-> 0]

\* The request is answered: its goroutine ends and its payload and locals are dropped.
Finish(q, resp) ==
    [q EXCEPT !.pc = "done", !.resp = resp,
              !.ctx.Request.Action = emptyString,
              !.ctx.Request.Callsign = emptyString,
              !.ctx.Request.Logbook = NilLb,
              !.ctx.Request.Qso = NilQso,
              !.logbookId = 0, !.lb = EmptyLogbook, !.fullKey = EmptyKey]

(***************************************************************************)
(* The middleware of package service.  A middleware yields whether it      *)
(* called c.Next(), the response it wrote otherwise, and the context.      *)
(***************************************************************************)
Reject(ctx, status, message) ==
    [next |-> FALSE, resp |-> Response(status, message), ctx |-> ctx,
     lookups |-> 0, verifies |-> 0]

Proceed(ctx) ==
    [next |-> TRUE, resp |-> NoResponse, ctx |-> ctx, lookups |-> 0, verifies |-> 0]

\* History: the middleware result m, reached after these lookups and verifications.
Traced(m, lookups, verifies) == [m EXCEPT !.lookups = lookups, !.verifies = verifies]

\* History: the calls of middleware result m are added to those of request q.
Counted(q, m) ==
    [q EXCEPT !.calls.lookups = @ + m.lookups, !.calls.verifies = @ + m.verifies]

\* s.db.FetchUserByCallsignContext
FetchUserByCallsign(callsign, dbErr) ==
    LET us == {u \in users : u.Callsign = callsign}
    IN IF dbErr \/ us = {} THEN [err |-> TRUE, model |-> NilUser]
       ELSE [err |-> FALSE, model |-> CHOOSE u \in us : TRUE]

\* Variant of fetchUser that does not look at EmailConfirmed.
fetchUserUnconfirmed(callsign, dbErr) ==
    IF callsign = emptyString THEN [err |-> TRUE, user |-> NilUser, lookups |-> 0]
    ELSE LET f == FetchUserByCallsign(callsign, dbErr)
         IN IF f.err THEN [err |-> TRUE, user |-> NilUser, lookups |-> 1]
            ELSE [err |-> FALSE, user |-> f.model, lookups |-> 1]

\* fetchUser fetches a user from the database by their callsign.
fetchUser(callsign, dbErr) ==
    IF callsign = emptyString THEN [err |-> TRUE, user |-> NilUser, lookups |-> 0]
    ELSE LET f == FetchUserByCallsign(callsign, dbErr)
         IN IF f.err THEN [err |-> TRUE, user |-> NilUser, lookups |-> 1]
            ELSE IF f.model.EmailConfirmed = FALSE
                 THEN [err |-> TRUE, user |-> NilUser, lookups |-> 1]
            ELSE [err |-> FALSE, user |-> f.model, lookups |-> 1]

\* isValidPassword checks a password against the stored hash.
isValidPassword(hash, pass) ==
    IF pass = EmptyKey \/ hash = <<>> THEN [valid |-> FALSE, err |-> TRUE, verifies |-> 0]
    ELSE LET v == VerifyPassword(hash, pass)
         IN [valid |-> v.valid, err |-> v.err, verifies |-> 1]

\* s.db.FetchAPIKeyByPrefixContext
FetchAPIKeyByPrefix(keys, prefix, dbErr) ==
    LET rows == {k \in keys : k.Prefix = prefix}
    IN IF dbErr \/ rows = {}
       THEN [err |-> TRUE, model |-> ApiKeyRow(<<>>, <<>>, 0, NullTime, NullTime, 0)]
       ELSE [err |-> FALSE, model |-> CHOOSE k \in rows : TRUE]

\* Variant of isValidApiKey that looks the prefix up a second time when the first
\* lookup fails.
isValidApiKeyRetry(keys, fullKey, dbErr) ==
    LET failed(l, v) ==
            [valid |-> FALSE, logbookId |-> 0, err |-> TRUE, lookups |-> l, verifies |-> v]
    IN IF fullKey = EmptyKey THEN failed(0, 0)
       ELSE LET p == ParseApiKey(fullKey)
            IN IF p.err THEN failed(0, 0)
               ELSE LET f1 == FetchAPIKeyByPrefix(keys, p.prefix, dbErr)
                        f == IF f1.err THEN FetchAPIKeyByPrefix(keys, p.prefix, FALSE)
                             ELSE f1
                        n == IF f1.err THEN 2 ELSE 1
                    IN IF f.err THEN failed(n, 0)
                       ELSE LET v == ValidateApiKey(fullKey, f.model.KeyHash)
                            IN IF v.err THEN failed(n, 1)
                               ELSE IF f.model.LogbookID = 0 THEN failed(n, 1)
                               ELSE IF ~v.valid
                                    THEN [valid |-> FALSE, logbookId |-> 0, err |-> FALSE,
                                          lookups |-> n, verifies |-> 1]
                               ELSE [valid |-> TRUE, logbookId |-> f.model.LogbookID,
                                     err |-> FALSE, lookups |-> n, verifies |-> 1]

\* isValidApiKey validates an API key against the stored record of its prefix.
isValidApiKey(keys, fullKey, dbErr) ==
    LET failed(l, v) ==
            [valid |-> FALSE, logbookId |-> 0, err |-> TRUE, lookups |-> l, verifies |-> v]
    IN IF fullKey = EmptyKey THEN failed(0, 0)
       ELSE LET p == ParseApiKey(fullKey)
            IN IF p.err THEN failed(0, 0)
               ELSE LET f == FetchAPIKeyByPrefix(keys, p.prefix, dbErr)
                    IN IF f.err THEN failed(1, 0)
                       ELSE LET v == ValidateApiKey(fullKey, f.model.KeyHash)
                            IN IF v.err THEN failed(1, 1)
                               ELSE IF f.model.LogbookID = 0 THEN failed(1, 1)
                               ELSE IF ~v.valid
                                    THEN [valid |-> FALSE, logbookId |-> 0, err |-> FALSE,
                                          lookups |-> 1, verifies |-> 1]
                               ELSE [valid |-> TRUE, logbookId |-> f.model.LogbookID,
                                     err |-> FALSE, lookups |-> 1, verifies |-> 1]

\* Variant of requestContextMiddleware that lets an empty key through.
requestContextMiddlewareAnyKey(request) ==
    IF request.Callsign = emptyString
    THEN Reject(NoContext, StatusBadRequest, jsonBadRequest)
    ELSE Proceed([stored |-> TRUE, Request |-> request, User |-> NilUser,
                  Logbook |-> NilLb, IsValid |-> FALSE])

\* requestContextMiddleware parses the body and stores the request context in locals.
requestContextMiddleware(request) ==
    IF request.Callsign = emptyString
    THEN Reject(NoContext, StatusBadRequest, jsonBadRequest)
    ELSE IF request.Key = EmptyKey
    THEN Reject(NoContext, StatusBadRequest, jsonBadRequest)
    ELSE Proceed([stored |-> TRUE, Request |-> request, User |-> NilUser,
                  Logbook |-> NilLb, IsValid |-> FALSE])

\* Variant of passwordAuthNMiddleware that does not look at the verdict on the password.
passwordAuthNMiddlewareSkipVerdict(ctx, dbErr) ==
    IF ~ctx.stored THEN Reject(ctx, StatusInternalServerError, jsonInternalError)
    ELSE LET f == fetchUser(ctx.Request.Callsign, dbErr)
         IN IF f.err THEN Traced(Reject(ctx, StatusUnauthorized, jsonUnauthorized),
                                 f.lookups, 0)
            ELSE LET v == isValidPassword(f.user.PassHash, ctx.Request.Key)
                 IN Traced(IF v.err THEN Reject(ctx, StatusUnauthorized, jsonUnauthorized)
                           ELSE Proceed([ctx EXCEPT !.IsValid = v.valid,
                                                    !.User = f.user,
                                                    !.Request.Key = EmptyKey]),
                           f.lookups, v.verifies)

\* passwordAuthNMiddleware authenticates a user by their password.
passwordAuthNMiddleware(ctx, dbErr) ==
    IF ~ctx.stored THEN Reject(ctx, StatusInternalServerError, jsonInternalError)
    ELSE LET f == fetchUser(ctx.Request.Callsign, dbErr)
         IN IF f.err THEN Traced(Reject(ctx, StatusUnauthorized, jsonUnauthorized),
                                 f.lookups, 0)
            ELSE LET v == isValidPassword(f.user.PassHash, ctx.Request.Key)
                 IN Traced(IF v.err THEN Reject(ctx, StatusUnauthorized, jsonUnauthorized)
                           ELSE IF ~v.valid
                                THEN Reject(ctx, StatusUnauthorized, jsonUnauthorized)
                           ELSE Proceed([ctx EXCEPT !.IsValid = v.valid,
                                                    !.User = f.user,
                                                    !.Request.Key = EmptyKey]),
                           f.lookups, v.verifies)

\* Variant of the key check that tells a wrong secret from the other failures.
apikeyAuthNValidateVerbose(ctx, keys, dbErr) ==
    IF ~ctx.stored
    THEN [m |-> Reject(ctx, StatusInternalServerError, jsonInternalError), logbookId |-> 0]
    ELSE LET v == isValidApiKey(keys, ctx.Request.Key, dbErr)
             t(m) == Traced(m, v.lookups, v.verifies)
         IN IF v.err
            THEN [m |-> t(Reject(ctx, StatusUnauthorized, jsonUnauthorized)), logbookId |-> 0]
            ELSE IF ~v.valid
            THEN [m |-> t(Reject(ctx, StatusUnauthorized, <<"Invalid API key">>)),
                  logbookId |-> 0]
            ELSE [m |-> t(Proceed([ctx EXCEPT !.IsValid = v.valid])),
                  logbookId |-> v.logbookId]

\* apikeyAuthNMiddleware up to the call of fetchLogbookWithCache: the key check.
apikeyAuthNValidate(ctx, keys, dbErr) ==
    IF ~ctx.stored
    THEN [m |-> Reject(ctx, StatusInternalServerError, jsonInternalError), logbookId |-> 0]
    ELSE LET v == isValidApiKey(keys, ctx.Request.Key, dbErr)
             t(m) == Traced(m, v.lookups, v.verifies)
         IN IF v.err
            THEN [m |-> t(Reject(ctx, StatusUnauthorized, jsonUnauthorized)), logbookId |-> 0]
            ELSE IF ~v.valid
            THEN [m |-> t(Reject(ctx, StatusUnauthorized, jsonUnauthorized)), logbookId |-> 0]
            ELSE [m |-> t(Proceed([ctx EXCEPT !.IsValid = v.valid])),
                  logbookId |-> v.logbookId]

\* Variant of apikeyAuthNBind that leaves the key in the context.
apikeyAuthNBindKeepKey(ctx, fetchErr, logbook) ==
    IF fetchErr THEN Reject(ctx, StatusUnauthorized, jsonUnauthorized)
    ELSE Proceed([ctx EXCEPT !.Logbook = PtrLb(logbook)])

\* apikeyAuthNMiddleware after fetchLogbookWithCache returned (fetchErr, logbook).
apikeyAuthNBind(ctx, fetchErr, logbook) ==
    IF fetchErr THEN Reject(ctx, StatusUnauthorized, jsonUnauthorized)
    ELSE Proceed([ctx EXCEPT !.Logbook = PtrLb(logbook), !.Request.Key = EmptyKey])

(***************************************************************************)
(* Package server: one middleware, basicChecks, in front of one dispatcher *)
(* for all POST requests.  Its fetchUser, isValidPassword and              *)
(* isValidApiKey are those of package service behind nil checks.           *)
(***************************************************************************)
\* validatePostRequest: TRUE iff it returns an error.
validatePostRequest(request) ==
    IF request.Action = emptyString THEN TRUE
    ELSE IF request.Key = EmptyKey THEN TRUE
    ELSE IF request.Callsign = emptyString THEN TRUE
    ELSE IF request.Action = RegisterLogbookAction THEN request.Logbook.nil
    ELSE IF request.Action = InsertQsoAction THEN request.Qso.nil
    ELSE FALSE

\* Variant of isValidAction that accepts every action.
isValidActionAny(action) == [valid |-> TRUE, err |-> FALSE]

\* isValidAction checks the Action field.
isValidAction(action) ==
    IF action = RegisterLogbookAction THEN [valid |-> TRUE, err |-> FALSE]
    ELSE IF action = InsertQsoAction THEN [valid |-> TRUE, err |-> FALSE]
    ELSE [valid |-> FALSE, err |-> TRUE]

\* Variant of the choice of path that sends every action to the key check.
requiresPasswordNever(action) == FALSE

\* basicChecks, 4: registering a logbook requires the user's password, every other
\* action the API key.
requiresPassword(action) == action = RegisterLogbookAction

\* basicChecks up to its call of fetchLogbookWithCache.  rc is its local request
\* context, which reaches the locals only at the end; fetch tells that the key check
\* passed and the logbook is to be resolved.
basicChecks(request, keys, dbErr) ==
    LET rc == [stored |-> FALSE, Request |-> request, User |-> NilUser,
               Logbook |-> NilLb, IsValid |-> FALSE]
        bad == Reject(NoContext, StatusBadRequest, jsonBadRequest)
        unauthorized == Reject(NoContext, StatusUnauthorized, jsonUnauthorized)
        end(m, stages) == [m |-> m, fetch |-> FALSE, logbookId |-> 0, trail |-> stages]
        parsed == <<"Received", "EnvelopeParsed">>
        password == parsed \o <<"ActionValidated", "PasswordPath">>
        key == parsed \o <<"ActionValidated", "KeyPath">>
    IN IF validatePostRequest(request) THEN end(bad, <<"Received">>)
       ELSE LET a == isValidAction(request.Action)
            IN IF a.err THEN end(bad, parsed)
               ELSE IF ~a.valid THEN end(bad, parsed)
               ELSE IF requiresPassword(request.Action)
               THEN LET f == fetchUser(request.Callsign, dbErr)
                    IN IF f.err THEN end(Traced(unauthorized, f.lookups, 0), password)
                       ELSE LET v == isValidPassword(f.user.PassHash, request.Key)
                            IN end(Traced(
                                   IF v.err THEN unauthorized
                                   ELSE IF ~v.valid THEN unauthorized
                                   ELSE Proceed([rc EXCEPT !.IsValid = TRUE,
                                                           !.User = f.user,
                                                           !.stored = TRUE]),
                                   f.lookups, v.verifies), password)
               ELSE LET v == isValidApiKey(keys, request.Key, dbErr)
                    IN IF v.err THEN end(Traced(unauthorized, v.lookups, v.verifies), key)
                       ELSE IF ~v.valid
                       THEN end(Traced(unauthorized, v.lookups, v.verifies), key)
                       ELSE [m |-> Traced(Proceed(rc), v.lookups, v.verifies),
                             fetch |-> TRUE, logbookId |-> v.logbookId, trail |-> key]

\* History: the terminal stage of a request whose middleware ended as m: Rejected
\* when m wrote a response, Authorized when it only called c.Next().
Terminal(m) == IF m.resp = NoResponse THEN "Authorized" ELSE "Rejected"

\* The middleware ended as m: the request is answered if m wrote a response and
\* goes on at position pc if m called c.Next().
Continue(q, m, pc) ==
    LET q1 == [q EXCEPT !.ctx = m.ctx, !.trail = Append(@, Terminal(m))]
    IN IF m.next THEN [q1 EXCEPT !.pc = pc, !.resp = m.resp]
       ELSE Finish(q1, m.resp)

\* Variant of basicChecksBind without the return after the 401.
basicChecksBindNoReturn(rc, fetchErr, logbook) ==
    IF fetchErr
    THEN [Reject(rc, StatusUnauthorized, jsonUnauthorized) EXCEPT
             !.next = TRUE, !.ctx.stored = TRUE, !.ctx.IsValid = TRUE,
             !.ctx.Logbook = PtrLb(logbook)]
    ELSE Proceed([rc EXCEPT !.IsValid = TRUE, !.Logbook = PtrLb(logbook),
                            !.stored = TRUE])

\* basicChecks after fetchLogbookWithCache returned (fetchErr, logbook).
basicChecksBind(rc, fetchErr, logbook) ==
    IF fetchErr THEN Reject(NoContext, StatusUnauthorized, jsonUnauthorized)
    ELSE Proceed([rc EXCEPT !.IsValid = TRUE, !.Logbook = PtrLb(logbook),
                            !.stored = TRUE])

\* postDispatcherHandler: the response it writes itself, or the action it calls.
postDispatcherHandler(rc) ==
    IF ~rc.stored
    THEN [pc |-> "done", resp |-> Response(StatusInternalServerError, jsonInternalError)]
    ELSE IF ~rc.IsValid
    THEN [pc |-> "done", resp |-> Response(StatusUnauthorized, jsonUnauthorized)]
    ELSE IF rc.Request.Action = InsertQsoAction THEN [pc |-> "insert", resp |-> NoResponse]
    ELSE IF rc.Request.Action = RegisterLogbookAction
    THEN [pc |-> "register", resp |-> NoResponse]
    ELSE [pc |-> "done", resp |-> Response(StatusBadRequest, jsonBadRequest)]

(***************************************************************************)
(* Direct calls of the cache, as the cache tests make them.                *)
(***************************************************************************)
\* History: what Set last stored for the keys still resident in c.
Kept(st, c) == [k \in (DOMAIN st) \cap Resident(c) |-> st[k]]

\* History: where id stood in the recency list (1 is the head, 0 is absent).
Position(keys, id) ==
    IF \E i \in 1..Len(keys) : keys[i] = id
    THEN CHOOSE i \in 1..Len(keys) : keys[i] = id
    ELSE 0

NoCall ==
    [op |-> "none", id |-> 0, value |-> EmptyLogbook, ok |-> FALSE, ttl |-> 0,
     evicted |-> {}, stored |-> EmptyMap, pos |-> 0]

CallGet(id) ==
    LET r == Get(cache, id, now)
        o == optimizedGet(opt.c, id, now)
    IN /\ cache' = r.c
       /\ opt' = o
       /\ recency' = IF r.ok THEN Touched(recency, r.c, id) ELSE Surviving(recency, r.c)
       /\ last' = [op |-> "Get", id |-> id, value |-> r.value, ok |-> r.ok,
                   ttl |-> IF id \in DOMAIN last.stored THEN last.stored[id].ttl ELSE 0,
                   evicted |-> Resident(cache) \ Resident(r.c),
                   stored |-> Kept(last.stored, r.c), pos |-> 0]
       /\ UNCHANGED <<now, req, dbVars>>

CallSet(id, lb, ttl) ==
    LET c1 == Set(cache, id, lb, ttl, now)
    IN /\ cache' = c1
       /\ opt' = [c |-> optimizedSet(opt.c, id, lb, ttl, now), value |-> EmptyLogbook,
                  ok |-> FALSE]
       /\ recency' = IF id \in Resident(c1) THEN Touched(recency, c1, id)
                     ELSE Surviving(recency, c1)
       /\ last' = [op |-> "Set", id |-> id, value |-> lb, ok |-> id \in Resident(cache),
                   ttl |-> ttl,
                   evicted |-> Resident(cache) \ Resident(c1),
                   stored |-> Kept(MapPut(last.stored, id,
                                          [value |-> lb, at |-> now, ttl |-> ttl]), c1),
                   pos |-> 0]
       /\ UNCHANGED <<now, req, dbVars>>

CallInvalidate(id) ==
    LET c1 == Invalidate(cache, id)
    IN /\ cache' = c1
       /\ opt' = [c |-> optimizedInvalidate(opt.c, id), value |-> EmptyLogbook,
                  ok |-> FALSE]
       /\ recency' = Surviving(recency, c1)
       /\ last' = [op |-> "Invalidate", id |-> id, value |-> EmptyLogbook,
                   ok |-> id \in Resident(cache),
                   ttl |-> 0, evicted |-> Resident(cache) \ Resident(c1),
                   stored |-> Kept(last.stored, c1),
                   pos |-> Position(ListKeys(cache), id)]
       /\ UNCHANGED <<now, req, dbVars>>

Tick ==
    /\ now < MaxTime
    /\ now' = now + 1
    /\ UNCHANGED <<cache, recency, last, opt, req, dbVars>>

(***************************************************************************)
(* Storage: a transactional relational store.  Rows written in a           *)
(* transaction are visible outside it only once it has committed.          *)
(***************************************************************************)
NoTx == [state |-> "none", logbooks |-> {}, apiKeys |-> {}]

\* s.db.BeginTxContext
BeginTx == [state |-> "open", logbooks |-> {}, apiKeys |-> {}]

\* Variant of an error path that returns without tx.Rollback.
RollbackNotCalled(t) == t

\* tx.Rollback
Rollback(t) == [state |-> "rolledback", logbooks |-> {}, apiKeys |-> {}]

\* Variant of the logbook insert that writes outside the transaction.
InsertLogbookNoTx(t, committed, row) ==
    [tx |-> t, logbooks |-> committed \cup {row}]

\* s.db.InsertLogbookWithTxContext(ctx, tx, logbook): the row is written in tx.
InsertLogbookWithTx(t, committed, row) ==
    [tx |-> [t EXCEPT !.logbooks = @ \cup {row}], logbooks |-> committed]

\* Variant of the key insert that writes on a transaction of its own.
InsertAPIKeyOtherTx(t, committed, row) ==
    [tx |-> [BeginTx EXCEPT !.apiKeys = {row}], apiKeys |-> committed]

\* Variant of the key insert that writes outside the transaction.
InsertAPIKeyNoTx(t, committed, row) ==
    [tx |-> t, apiKeys |-> committed \cup {row}]

\* s.db.InsertAPIKeyWithTxContext(ctx, tx, ...): the row is written in tx.
InsertAPIKeyWithTx(t, committed, row) ==
    [tx |-> [t EXCEPT !.apiKeys = @ \cup {row}], apiKeys |-> committed]

\* A logbook insert waits while another open transaction holds the same unique name.
NameLocked(r, name) ==
    \E r2 \in Requests \ {r} :
        tx[r2].state = "open" /\ \E row \in tx[r2].logbooks : row.Name = name

\* Variant of the unique-name constraint in which a row of any name conflicts.
NameTakenByAnyTenant(name) == logbooks # {}

NameTaken(name) == \E row \in logbooks : row.Name = name

PrefixTaken(prefix) == \E row \in apiKeys : row.Prefix = prefix

(***************************************************************************)
(* The requests.  A step runs a goroutine up to and including its next     *)
(* access to storage or to the cache.                                      *)
(***************************************************************************)
RegisterKeys == Passwords \cup {<<"p1", Sep, "s1">>}
InsertKeys == FullKeys \cup {<<"pw1">>}

\* POST /api/logbook/register: requestContextMiddleware, passwordAuthNMiddleware.
RegisterRequest(r) ==
    /\ req[r].pc = "idle"
    /\ \E callsign \in Callsigns, key \in RegisterKeys, payload \in LogbookPayloads,
          dbErr \in BOOLEAN :
         LET q0 == [IdleRequest EXCEPT !.route = "register",
                                       !.truth = TruthPassword(callsign, key, dbErr)]
             m1 == requestContextMiddleware(PostRequest(callsign, key, payload, NilQso))
             m2 == passwordAuthNMiddleware(m1.ctx, dbErr)
         IN req' = [req EXCEPT ![r] =
                IF ~m1.next THEN Finish([q0 EXCEPT !.ctx = m1.ctx], m1.resp)
                ELSE IF ~m2.next
                     THEN Finish(Counted([q0 EXCEPT !.ctx = m2.ctx], m2), m2.resp)
                ELSE Counted([q0 EXCEPT !.ctx = m2.ctx, !.pc = "register"], m2)]
    /\ UNCHANGED <<cacheVars, dbVars>>

\* POST /api/qso/insert: requestContextMiddleware, apikeyAuthNMiddleware's key check.
InsertRequest(r) ==
    /\ req[r].pc = "idle"
    /\ \E callsign \in {emptyString, "W1AW"}, key \in InsertKeys, payload \in QsoPayloads,
          dbErr \in BOOLEAN :
         LET q0 == [IdleRequest EXCEPT !.route = "insert",
                                       !.truth = TruthKey(callsign, key, apiKeys, dbErr, now)]
             m1 == requestContextMiddleware(PostRequest(callsign, key, NilLb, payload))
             a == apikeyAuthNValidate(m1.ctx, apiKeys, dbErr)
         IN req' = [req EXCEPT ![r] =
                IF ~m1.next THEN Finish([q0 EXCEPT !.ctx = m1.ctx], m1.resp)
                ELSE IF ~a.m.next
                     THEN Finish(Counted([q0 EXCEPT !.ctx = a.m.ctx], a.m), a.m.resp)
                ELSE Counted([q0 EXCEPT !.ctx = a.m.ctx, !.logbookId = a.logbookId,
                                        !.pc = "fetch"], a.m)]
    /\ UNCHANGED <<cacheVars, dbVars>>

\* What clients send to package server.
ServerKeys == {EmptyKey, <<"pw1">>, <<"bad">>, <<"p1", Sep, "s1">>, <<"p1", Sep, "sX">>}
ServerLogbooks == {NilLb, PtrLb(Logbook(0, "W1AW", "HF", 7))}
ServerQsos == {NilQso, PtrQso([StationCallsign |-> "W1AW", Call |-> "DX1", LogbookID |-> 2])}

\* POST /api/ of package server: basicChecks up to the logbook resolution.
ServerRequest(r) ==
    /\ req[r].pc = "idle"
    /\ \E action \in Actions, callsign \in {emptyString, "W1AW"}, key \in ServerKeys,
          logbook \in ServerLogbooks, qso \in ServerQsos, dbErr \in BOOLEAN :
         LET request == [PostRequest(callsign, key, logbook, qso) EXCEPT !.Action = action]
             q0 == [IdleRequest EXCEPT
                       !.route = "server", !.action = action,
                       !.truth = IF action = RegisterLogbookAction
                                 THEN TruthPassword(callsign, key, dbErr)
                                 ELSE TruthKey(callsign, key, apiKeys, dbErr, now)]
             b == basicChecks(request, apiKeys, dbErr)
             q1 == Counted([q0 EXCEPT !.trail = b.trail], b.m)
         IN req' = [req EXCEPT ![r] =
                IF b.fetch
                THEN [q1 EXCEPT !.ctx = b.m.ctx, !.logbookId = b.logbookId, !.pc = "fetch"]
                ELSE Continue(q1, b.m, "dispatch")]
    /\ UNCHANGED <<cacheVars, dbVars>>

\* c.Next() of basicChecks: postDispatcherHandler.
ServerDispatch(r) ==
    LET q == req[r]
        d == postDispatcherHandler(q.ctx)
    IN /\ q.pc = "dispatch"
       /\ req' = [req EXCEPT ![r] =
              IF d.pc = "done" THEN Finish(q, d.resp) ELSE [q EXCEPT !.pc = d.pc]]
       /\ UNCHANGED <<cacheVars, dbVars>>

\* A direct call of fetchLogbookWithCache(ctx, id).
FetchLogbookIDs == {0, 1, 9}

DirectFetch(r) ==
    /\ req[r].pc = "idle"
    /\ \E id \in FetchLogbookIDs :
         req' = [req EXCEPT ![r] =
                    [IdleRequest EXCEPT !.route = "direct", !.logbookId = id,
                                        !.pc = "fetch"]]
    /\ UNCHANGED <<cacheVars, dbVars>>

\* fetchLogbookWithCache returned (err, logbook) to its caller.
FetchReturn(q, err, logbook) ==
    IF q.route = "direct"
    THEN [q EXCEPT !.pc = "done", !.retErr = err, !.lb = logbook]
    ELSE IF q.route = "server"
    THEN LET m == basicChecksBind(q.ctx, err, logbook)
         IN Continue([q EXCEPT !.retErr = err, !.resolveFailed = err], m, "dispatch")
    ELSE LET m == apikeyAuthNBind(q.ctx, err, logbook)
         IN IF m.next THEN [q EXCEPT !.ctx = m.ctx, !.retErr = err, !.pc = "insert"]
            ELSE Finish([q EXCEPT !.ctx = m.ctx, !.retErr = err,
                                  !.resolveFailed = TRUE], m.resp)

\* Variant of the guard of fetchLogbookWithCache that refuses no id.
fetchRefusesNothing(logbookID) == FALSE

\* fetchLogbookWithCache refuses the zero id before it looks anywhere.
fetchRefusesID(logbookID) == logbookID = 0

\* fetchLogbookWithCache, 1: the guard and the cache lookup.
FetchCache(r) ==
    LET q == req[r]
        g == Get(cache, q.logbookId, now)
        q1 == [q EXCEPT !.calls.cacheGet = @ + 1]
    IN /\ q.pc = "fetch"
       /\ IF fetchRefusesID(q.logbookId)
          THEN /\ req' = [req EXCEPT ![r] = FetchReturn(q, TRUE, EmptyLogbook)]
               /\ UNCHANGED <<cache, recency>>
          ELSE /\ cache' = g.c
               /\ recency' = IF g.ok THEN Touched(recency, g.c, q.logbookId)
                             ELSE Surviving(recency, g.c)
               /\ req' = [req EXCEPT ![r] =
                             IF g.ok THEN FetchReturn(q1, FALSE, g.value)
                             ELSE [q1 EXCEPT !.pc = "fetch_db"]]
       /\ UNCHANGED <<now, last, opt, dbVars>>

\* fetchLogbookWithCache, 2: the fallback to s.db.FetchLogbookByIDContext.
FetchDB(r) ==
    LET q == req[r]
        rows == {l \in logbooks : l.ID = q.logbookId}
        q1 == [q EXCEPT !.calls.fetchLogbook = @ + 1]
    IN /\ q.pc = "fetch_db"
       /\ \E dbErr \in BOOLEAN :
            req' = [req EXCEPT ![r] =
                IF dbErr \/ rows = {}
                THEN FetchReturn([q1 EXCEPT !.fault = (rows # {})], TRUE, EmptyLogbook)
                ELSE LET row == CHOOSE l \in rows : TRUE
                     IN [q1 EXCEPT !.pc = "fetch_set",
                                   !.lb = Logbook(row.ID, row.Callsign, row.Name,
                                                  row.UserID)]]
       /\ UNCHANGED <<cacheVars, dbVars>>

\* Variant of the end of fetchLogbookWithCache that returns the logbook without
\* storing it in the cache.
FetchSetSkipped(r) ==
    LET q == req[r]
    IN /\ q.pc = "fetch_set"
       /\ req' = [req EXCEPT ![r] = FetchReturn(q, FALSE, q.lb)]
       /\ UNCHANGED <<cacheVars, dbVars>>

\* fetchLogbookWithCache, 3: the fill of the cache.
FetchSet(r) ==
    LET q == req[r]
        c1 == Set(cache, q.logbookId, q.lb, defaultLogbookCacheTTL, now)
        q1 == [q EXCEPT !.calls.cacheSet = @ + 1]
    IN /\ q.pc = "fetch_set"
       /\ cache' = c1
       /\ recency' = Touched(recency, c1, q.logbookId)
       /\ req' = [req EXCEPT ![r] = FetchReturn(q1, FALSE, q.lb)]
       /\ UNCHANGED <<now, last, opt, dbVars>>

\* Variant of the insert that keeps the logbook id of the payload.
stampLogbookNot(qso, logbook) == qso

\* qso.LogbookID = logbook.ID
stampLogbook(qso, logbook) == [qso EXCEPT !.LogbookID = logbook.ID]

\* insertQsoHandler
InsertQsoHandler(r) ==
    LET q == [req[r] EXCEPT !.handlerRan = TRUE]
        rc == q.ctx
        qso == stampLogbook(rc.Request.Qso.v, rc.Logbook.v)
    IN /\ req[r].pc = "insert"
       /\ \E dbErr \in BOOLEAN :
            IF ~rc.stored \/ rc.Logbook.nil
            THEN /\ req' = [req EXCEPT ![r] =
                       Finish(q, Response(StatusInternalServerError, jsonInternalError))]
                 /\ UNCHANGED qsos
            ELSE IF rc.Request.Qso.nil
            THEN /\ req' = [req EXCEPT ![r] =
                       Finish(q, Response(StatusBadRequest, jsonBadRequest))]
                 /\ UNCHANGED qsos
            ELSE IF rc.Request.Qso.v.StationCallsign # rc.Logbook.v.Callsign
            THEN /\ req' = [req EXCEPT ![r] =
                       Finish(q, Response(StatusBadRequest, jsonCallsignMismatch))]
                 /\ UNCHANGED qsos
            ELSE IF ~ValidQso(qso)
            THEN /\ req' = [req EXCEPT ![r] =
                       Finish(q, Response(StatusBadRequest, jsonBadRequest))]
                 /\ UNCHANGED qsos
            ELSE IF dbErr
            THEN /\ req' = [req EXCEPT ![r] =
                       Finish([q EXCEPT !.fault = TRUE],
                              Response(StatusInternalServerError, jsonInternalError))]
                 /\ UNCHANGED qsos
            ELSE /\ req' = [req EXCEPT ![r] =
                       Finish(q, Response(StatusCreated, jsonQsoCreated))]
                 /\ qsos' = qsos \cup {[StationCallsign |-> qso.StationCallsign,
                                        Call |-> qso.Call, LogbookID |-> qso.LogbookID,
                                        by |-> r]}
       /\ UNCHANGED <<cacheVars, logbooks, apiKeys, tx, nextID>>

(***************************************************************************)
(* registerLogbookHandler, one step per call of storage.                   *)
(***************************************************************************)
\* History: the exit the handler took and the logbook name of the attempt.
Exit(q, e) == [q EXCEPT !.exit = e, !.name = q.lb.Name]

\* Variant of the commit-failure body that carries the key.
commitFailureResponseWithKey(fullKey) == Response(StatusInternalServerError, fullKey)

\* The body sent when tx.Commit fails.
commitFailureResponse(fullKey) == Response(StatusInternalServerError, jsonInternalError)

\* The body sent once tx.Commit succeeded.
createdResponse(fullKey) == Response(StatusCreated, fullKey)

\* Variant in which the storage calls are given a context detached from the request.
ctxDetached(q) == FALSE

\* ctx := c.UserContext(): the context the handler hands to BeginTxContext and to
\* both inserts, and to which the transaction is bound, is done once the request
\* was cancelled or its deadline passed.
ctxDone(q) == q.cancelledAt # "none"

\* Variant of the owner assignment that keeps the owner the payload names.
associateUserNot(logbook, user) == logbook

\* logbook.UserID = reqCtx.User.ID, on the handler's copy of the payload.
associateUser(logbook, user) == [logbook EXCEPT !.UserID = user.ID]

\* From the handler's entry to s.db.BeginTxContext.
RegisterBegin(r) ==
    LET q == [req[r] EXCEPT !.handlerRan = TRUE]
        rc == q.ctx
    IN /\ req[r].pc = "register"
       /\ \E beginErr \in {b \in BOOLEAN : ctxDone(q) => b} :
            IF ~rc.stored
            THEN /\ req' = [req EXCEPT ![r] =
                       Finish(q, Response(StatusInternalServerError, jsonInternalError))]
                 /\ UNCHANGED tx
            ELSE IF rc.Request.Logbook.nil
            THEN /\ req' = [req EXCEPT ![r] =
                       Finish(q, Response(StatusBadRequest, jsonBadRequest))]
                 /\ UNCHANGED tx
            ELSE IF ~ValidLogbook(rc.Request.Logbook.v)
            THEN /\ req' = [req EXCEPT ![r] =
                       Finish(q, Response(StatusBadRequest, jsonBadRequest))]
                 /\ UNCHANGED tx
            ELSE IF rc.User.nil
            THEN /\ req' = [req EXCEPT ![r] =
                       Finish(q, Response(StatusInternalServerError, jsonInternalError))]
                 /\ UNCHANGED tx
            ELSE IF beginErr
            THEN /\ req' = [req EXCEPT ![r] =
                       Finish([q EXCEPT !.calls.beginTx = @ + 1, !.fault = TRUE],
                              Response(StatusInternalServerError, jsonInternalError))]
                 /\ UNCHANGED tx
            ELSE /\ req' = [req EXCEPT ![r] =
                       [q EXCEPT !.pc = "tx_logbook", !.calls.beginTx = @ + 1,
                                 !.lb = associateUser(rc.Request.Logbook.v, rc.User)]]
                 /\ tx' = [tx EXCEPT ![r] = BeginTx]
       /\ UNCHANGED <<cacheVars, logbooks, apiKeys, qsos, nextID>>

InsertOutcomes == {"ok", "err", "zero"}

\* s.db.InsertLogbookWithTxContext and the check of the id it assigned.
RegisterInsertLogbook(r) ==
    LET q == [req[r] EXCEPT !.calls.insertLogbook = @ + 1]
    IN /\ q.pc = "tx_logbook"
       /\ ~NameLocked(r, q.lb.Name)
       /\ \E outcome \in {o \in InsertOutcomes : ctxDone(q) => o = "err"} :
            IF outcome = "err" \/ NameTaken(q.lb.Name)
            THEN /\ tx' = [tx EXCEPT ![r] = Rollback(tx[r])]
                 /\ req' = [req EXCEPT ![r] =
                       Finish(Exit([q EXCEPT !.fault = ~NameTaken(q.lb.Name)],
                                   "InsertLogbook"),
                              Response(StatusInternalServerError, jsonInternalError))]
                 /\ UNCHANGED <<logbooks, nextID>>
            ELSE LET id == IF outcome = "zero" THEN 0 ELSE nextID
                     row == LogbookRow(id, q.lb.Name, q.lb.Callsign, q.lb.UserID, r)
                     ins == InsertLogbookWithTx(tx[r], logbooks, row)
                 IN /\ logbooks' = ins.logbooks
                    /\ nextID' = IF id = 0 THEN nextID ELSE nextID + 1
                    /\ IF id = 0
                       THEN /\ tx' = [tx EXCEPT ![r] = Rollback(ins.tx)]
                            /\ req' = [req EXCEPT ![r] =
                                  Finish(Exit([q EXCEPT !.fault = TRUE], "ZeroID"),
                                         Response(StatusInternalServerError,
                                                  jsonInternalError))]
                       ELSE /\ tx' = [tx EXCEPT ![r] = ins.tx]
                            /\ req' = [req EXCEPT ![r] =
                                  [q EXCEPT !.lb.ID = id, !.pc = "tx_key"]]
       /\ UNCHANGED <<cacheVars, apiKeys, qsos>>

KeyOutcomes == {"ok", "genErr", "insErr"}

\* apikey.GenerateApiKey and s.db.InsertAPIKeyWithTxContext.
RegisterInsertAPIKey(r) ==
    LET q0 == [req[r] EXCEPT !.calls.generateKey = @ + 1]
        q == [q0 EXCEPT !.calls.insertAPIKey = @ + 1]
        k == GenerateApiKey(r)
        row == ApiKeyRow(k.prefix, k.hash, q.lb.ID, NullTime, NullTime, r)
        ins == InsertAPIKeyWithTx(tx[r], apiKeys, row)
    IN /\ q.pc = "tx_key"
       /\ \E outcome \in {o \in KeyOutcomes : ctxDone(q) => o # "ok"} :
            IF outcome = "genErr"
            THEN /\ tx' = [tx EXCEPT ![r] = Rollback(tx[r])]
                 /\ req' = [req EXCEPT ![r] =
                       Finish(Exit([q0 EXCEPT !.fault = TRUE], "GenerateApiKey"),
                              Response(StatusInternalServerError, jsonInternalError))]
                 /\ UNCHANGED apiKeys
            ELSE IF outcome = "insErr" \/ PrefixTaken(k.prefix)
            THEN /\ tx' = [tx EXCEPT ![r] = Rollback(tx[r])]
                 /\ req' = [req EXCEPT ![r] =
                       Finish(Exit([q EXCEPT !.fault = ~PrefixTaken(k.prefix)],
                                   "InsertAPIKey"),
                              Response(StatusInternalServerError, jsonInternalError))]
                 /\ UNCHANGED apiKeys
            ELSE /\ tx' = [tx EXCEPT ![r] = ins.tx]
                 /\ apiKeys' = ins.apiKeys
                 /\ req' = [req EXCEPT ![r] =
                       [q EXCEPT !.fullKey = k.fullKey, !.pc = "tx_commit"]]
       /\ UNCHANGED <<cacheVars, logbooks, qsos, nextID>>

\* tx.Commit and the response.
RegisterCommit(r) ==
    LET q == [req[r] EXCEPT !.calls.commit = @ + 1]
    IN /\ q.pc = "tx_commit"
       /\ \E commitErr \in {b \in BOOLEAN : ctxDone(q) => b} :
            IF commitErr
            THEN /\ tx' = [tx EXCEPT ![r] =
                              [state |-> "failed", logbooks |-> {}, apiKeys |-> {}]]
                 /\ req' = [req EXCEPT ![r] = Finish(Exit([q EXCEPT !.fault = TRUE], "Commit"),
                                                     commitFailureResponse(q.fullKey))]
                 /\ UNCHANGED <<logbooks, apiKeys>>
            ELSE /\ tx' = [tx EXCEPT ![r] =
                              [state |-> "committed", logbooks |-> {}, apiKeys |-> {}]]
                 /\ logbooks' = logbooks \cup tx[r].logbooks
                 /\ apiKeys' = apiKeys \cup tx[r].apiKeys
                 /\ req' = [req EXCEPT ![r] = Finish(Exit(q, "Created"),
                                                     createdResponse(q.fullKey))]
       /\ UNCHANGED <<cacheVars, qsos, nextID>>

\* Time passes until whatever the cache holds has expired.
TTLElapse ==
    /\ now <= MaxTime
    /\ now' = now + defaultLogbookCacheTTL + 1
    /\ UNCHANGED <<cache, recency, last, opt, req, dbVars>>

(***************************************************************************)
(* The service: requests run concurrently against one cache and one store. *)
(***************************************************************************)
InitStore ==
    /\ req = [r \in Requests |-> IdleRequest]
    /\ logbooks = InitLogbooks
    /\ apiKeys = InitApiKeys
    /\ qsos = {}
    /\ tx = [r \in Requests |-> NoTx]
    /\ nextID = FirstLogbookID

Init ==
    /\ \E k \in 1..MaxCap :
          /\ cache = newInMemoryLogbookCache(k)
          /\ opt = [c |-> newOptimizedInMemoryLogbookCache(k), value |-> EmptyLogbook,
                    ok |-> FALSE]
    /\ now = 0
    /\ recency = <<>>
    /\ last = NoCall
    /\ InitStore

Next ==
    \/ \E r \in Requests : RegisterRequest(r)
    \/ \E r \in Requests : InsertRequest(r)
    \/ \E r \in Requests : DirectFetch(r)
    \/ \E r \in Requests : FetchCache(r)
    \/ \E r \in Requests : FetchDB(r)
    \/ \E r \in Requests : FetchSet(r)
    \/ \E r \in Requests : InsertQsoHandler(r)
    \/ \E r \in Requests : RegisterBegin(r)
    \/ \E r \in Requests : RegisterInsertLogbook(r)
    \/ \E r \in Requests : RegisterInsertAPIKey(r)
    \/ \E r \in Requests : RegisterCommit(r)
    \/ TTLElapse

Spec == Init /\ [][Next]_vars

(***************************************************************************)
(* Package server: every request passes basicChecks and the dispatcher.    *)
(***************************************************************************)
NextServer ==
    \/ \E r \in Requests : ServerRequest(r)
    \/ \E r \in Requests : FetchCache(r)
    \/ \E r \in Requests : FetchDB(r)
    \/ \E r \in Requests : FetchSet(r)
    \/ \E r \in Requests : ServerDispatch(r)
    \/ \E r \in Requests : InsertQsoHandler(r)
    \/ \E r \in Requests : RegisterBegin(r)
    \/ \E r \in Requests : RegisterInsertLogbook(r)
    \/ \E r \in Requests : RegisterInsertAPIKey(r)
    \/ \E r \in Requests : RegisterCommit(r)
    \/ TTLElapse

SpecServer == Init /\ [][NextServer]_vars

(***************************************************************************)
(* Both front ends: the routes of package service and the dispatcher of    *)
(* package server.                                                         *)
(***************************************************************************)
NextRouted ==
    \/ \E r \in Requests : RegisterRequest(r)
    \/ \E r \in Requests : InsertRequest(r)
    \/ NextServer

SpecRouted == Init /\ [][NextRouted]_vars

(***************************************************************************)
(* The cache on its own, under arbitrary calls.                            *)
(***************************************************************************)
NextCache ==
    \/ \E id \in CacheKeys : CallGet(id)
    \/ \E id \in CacheKeys, lb \in CacheValues, ttl \in TTLChoices : CallSet(id, lb, ttl)
    \/ \E id \in CacheKeys : CallInvalidate(id)
    \/ Tick
    \/ TTLElapse

SpecCache == Init /\ [][NextCache]_vars

(***************************************************************************)
(* The cache with room for three entries, as the list tests build it, so   *)
(* that the recency list has a middle node.                                *)
(***************************************************************************)
ListCap == 3

ListTTLs == {1, defaultLogbookCacheTTL}

InitList ==
    /\ \E k \in 1..ListCap :
          /\ cache = newInMemoryLogbookCache(k)
          /\ opt = [c |-> newOptimizedInMemoryLogbookCache(k), value |-> EmptyLogbook,
                    ok |-> FALSE]
    /\ now = 0
    /\ recency = <<>>
    /\ last = NoCall
    /\ InitStore

NextList ==
    \/ \E id \in CacheKeys : CallGet(id)
    \/ \E id \in CacheKeys, ttl \in ListTTLs : CallSet(id, Logbook(id, "TEST", "n", 1), ttl)
    \/ \E id \in CacheKeys : CallInvalidate(id)
    \/ Tick

SpecList == InitList /\ [][NextList]_vars

(***************************************************************************)
(* The cache built without a limit, as TestInMemoryLogbookCache_           *)
(* EvictWhenEmpty builds it (maxEntries 0), or with a negative maxEntries.  *)
(***************************************************************************)
NoLimits == {0, -1}

InitUnbounded ==
    /\ \E k \in NoLimits :
          /\ cache = newInMemoryLogbookCache(k)
          /\ opt = [c |-> newOptimizedInMemoryLogbookCache(k), value |-> EmptyLogbook,
                    ok |-> FALSE]
    /\ now = 0
    /\ recency = <<>>
    /\ last = NoCall
    /\ InitStore

SpecUnbounded == InitUnbounded /\ [][NextList]_vars

(***************************************************************************)
(* Workers calling the cache concurrently.  A call takes c.mu, then does   *)
(* its reads and writes of the map and of the list one at a time, then     *)
(* releases c.mu.  A worker's call is kept in its req record: route is the *)
(* method, logbookId the key, lb the value, victim the key being removed   *)
(* and then the position after the removal.                                *)
(***************************************************************************)
CacheMethods == {"Get", "Set", "Invalidate"}

\* Variant of c.mu.Lock() that never waits.
TryLockNoWait(rq, r) == TRUE

\* c.mu.Lock() returns for worker r once no other call holds c.mu.
TryLock(rq, r) == \A w \in Requests \ {r} : ~rq[w].holds

\* c.mu.Lock() at the start of Get, Set or Invalidate.
WorkerCall(r) ==
    /\ req[r].pc = "idle"
    /\ TryLock(req, r)
    /\ \E m \in CacheMethods, id \in CacheKeys, lb \in CacheValues :
         req' = [req EXCEPT ![r] =
                    [IdleRequest EXCEPT !.route = m, !.logbookId = id,
                                        !.lb = IF m = "Set" THEN lb ELSE EmptyLogbook,
                                        !.pc = "locked", !.holds = TRUE]]
    /\ UNCHANGED <<cacheVars, dbVars>>

\* The lookup c.entries[id] and what the method decides from it.
WorkerLookup(r) ==
    LET q == req[r]
        id == q.logbookId
        found == id \in DOMAIN cache.entries
        remove(k, next) == [q EXCEPT !.pc = "rm_unlink", !.victim = k, !.then = next]
        promote == IF cache.entries[id].prev = cache.head
                   THEN [q EXCEPT !.pc = "unlock", !.hit = TRUE]
                   ELSE [q EXCEPT !.pc = "mv_unlink", !.hit = TRUE]
    IN /\ q.pc = "locked"
       /\ IF q.route = "Get"
          THEN /\ req' = [req EXCEPT ![r] =
                     IF ~found THEN [q EXCEPT !.pc = "unlock"]
                     ELSE IF now > cache.entries[id].expiresAt THEN remove(id, "unlock")
                     ELSE promote]
               /\ UNCHANGED cache
          ELSE IF q.route = "Invalidate"
          THEN /\ req' = [req EXCEPT ![r] =
                     IF found THEN remove(id, "unlock") ELSE [q EXCEPT !.pc = "unlock"]]
               /\ UNCHANGED cache
          ELSE IF found
          THEN /\ cache' = [cache EXCEPT
                              !.entries[id].value = q.lb,
                              !.entries[id].expiresAt =
                                  now + effectiveTTL(defaultLogbookCacheTTL)]
               /\ req' = [req EXCEPT ![r] = promote]
          ELSE /\ req' = [req EXCEPT ![r] =
                     IF /\ cache.maxEntries > 0
                        /\ Cardinality(DOMAIN cache.entries) >= cache.maxEntries
                        /\ cache.tail # Nil /\ cache.tail \in DOMAIN cache.nodes
                     THEN remove(cache.nodes[cache.tail].key, "ins_map")
                     ELSE [q EXCEPT !.pc = "ins_map"]]
               /\ UNCHANGED cache
       /\ UNCHANGED <<now, recency, last, opt, dbVars>>

\* The node can be unlinked: it and its neighbours exist.
Linked(c, node) ==
    /\ node \in DOMAIN c.nodes
    /\ c.nodes[node].prev \in DOMAIN c.nodes \cup {Nil}
    /\ c.nodes[node].next \in DOMAIN c.nodes \cup {Nil}

\* c.removeNodeLocked(node), in removeLocked and in moveToFrontLocked.
WorkerUnlink(r) ==
    LET q == req[r]
        node == IF q.pc = "rm_unlink" THEN q.victim ELSE q.logbookId
    IN /\ q.pc \in {"rm_unlink", "mv_unlink"}
       /\ cache' = IF Linked(cache, node) THEN removeNodeLocked(cache, node) ELSE cache
       /\ req' = [req EXCEPT ![r].pc = IF q.pc = "rm_unlink" THEN "rm_delete" ELSE "link"]
       /\ UNCHANGED <<now, recency, last, opt, dbVars>>

\* delete(c.entries, id) at the end of removeLocked; the node is garbage afterwards.
WorkerDelete(r) ==
    LET q == req[r]
    IN /\ q.pc = "rm_delete"
       /\ cache' = [cache EXCEPT !.entries = MapDel(cache.entries, q.victim),
                                 !.nodes = MapDel(cache.nodes, q.victim)]
       /\ req' = [req EXCEPT ![r].pc = q.then]
       /\ UNCHANGED <<now, recency, last, opt, dbVars>>

\* c.entries[id] = entry for the new node, in Set.
WorkerInsert(r) ==
    LET q == req[r]
        id == q.logbookId
    IN /\ q.pc = "ins_map"
       /\ cache' = [cache EXCEPT
                      !.entries = MapPut(cache.entries, id,
                                     [value |-> q.lb,
                                      expiresAt |-> now + effectiveTTL(defaultLogbookCacheTTL),
                                      prev |-> id, next |-> id]),
                      !.nodes = MapPut(cache.nodes, id,
                                     [key |-> id, prev |-> Nil, next |-> Nil])]
       /\ req' = [req EXCEPT ![r].pc = "link"]
       /\ UNCHANGED <<now, recency, last, opt, dbVars>>

\* c.addToFrontLocked(node), in Set and in moveToFrontLocked.
WorkerLink(r) ==
    LET q == req[r]
        id == q.logbookId
    IN /\ q.pc = "link"
       /\ cache' = IF id \in DOMAIN cache.nodes
                      /\ cache.head \in DOMAIN cache.nodes \cup {Nil}
                   THEN addToFrontLocked(cache, id) ELSE cache
       /\ req' = [req EXCEPT ![r].pc = "unlock"]
       /\ UNCHANGED <<now, recency, last, opt, dbVars>>

\* The deferred c.mu.Unlock(): the call returns.
WorkerReturn(r) ==
    /\ req[r].pc = "unlock"
    /\ req[r].caller = "none"
    /\ req' = [req EXCEPT ![r] = IdleRequest]
    /\ UNCHANGED <<cacheVars, dbVars>>

NextWorkers ==
    \/ \E r \in Requests : WorkerCall(r)
    \/ \E r \in Requests : WorkerLookup(r)
    \/ \E r \in Requests : WorkerUnlink(r)
    \/ \E r \in Requests : WorkerDelete(r)
    \/ \E r \in Requests : WorkerInsert(r)
    \/ \E r \in Requests : WorkerLink(r)
    \/ \E r \in Requests : WorkerReturn(r)
    \/ TTLElapse

SpecWorkers == Init /\ [][NextWorkers]_vars

(***************************************************************************)
(* Workers that call fetchLogbookWithCache next to workers that call the   *)
(* cache: the fetch is a Get, then the storage call, then a Set.           *)
(***************************************************************************)
\* Variant of the deferred c.mu.Unlock() that leaves the lock held.
UnlockNot(q) == q

\* The deferred c.mu.Unlock().
Unlock(q) == [q EXCEPT !.holds = FALSE]

\* fetchLogbookWithCache(ctx, id) is called with a nonzero id.
WorkerFetch(r) ==
    /\ req[r].pc = "idle"
    /\ \E id \in CacheKeys :
         req' = [req EXCEPT ![r] =
                    [IdleRequest EXCEPT !.caller = "fetch", !.route = "Get",
                                        !.logbookId = id, !.pc = "want"]]
    /\ UNCHANGED <<cacheVars, dbVars>>

\* c.mu.Lock() of the Get or the Set that fetchLogbookWithCache calls.
WorkerLock(r) ==
    /\ req[r].pc = "want"
    /\ TryLock(req, r)
    /\ req' = [req EXCEPT ![r].pc = "locked", ![r].holds = TRUE]
    /\ UNCHANGED <<cacheVars, dbVars>>

\* The Get or the Set returns to fetchLogbookWithCache.
WorkerFetchReturn(r) ==
    LET q == Unlock(req[r])
    IN /\ req[r].pc = "unlock"
       /\ req[r].caller = "fetch"
       /\ req' = [req EXCEPT ![r] =
              IF q.route = "Get" /\ ~q.hit THEN [q EXCEPT !.pc = "storage"]
              ELSE IdleRequest]
       /\ UNCHANGED <<cacheVars, dbVars>>

\* s.db.FetchLogbookByIDContext returns to fetchLogbookWithCache.
WorkerStorage(r) ==
    LET q == req[r]
        rows == {l \in logbooks : l.ID = q.logbookId}
    IN /\ q.pc = "storage"
       /\ \E dbErr \in BOOLEAN :
            req' = [req EXCEPT ![r] =
                IF dbErr \/ rows = {} THEN IdleRequest
                ELSE LET row == CHOOSE l \in rows : TRUE
                     IN [q EXCEPT !.route = "Set", !.pc = "want",
                                  !.calls.fetchLogbook = @ + 1,
                                  !.lb = Logbook(row.ID, row.Callsign, row.Name,
                                                 row.UserID)]]
       /\ UNCHANGED <<cacheVars, dbVars>>

NextFetchWorkers ==
    \/ \E r \in Requests : WorkerCall(r)
    \/ \E r \in Requests : WorkerFetch(r)
    \/ \E r \in Requests : WorkerLock(r)
    \/ \E r \in Requests : WorkerLookup(r)
    \/ \E r \in Requests : WorkerUnlink(r)
    \/ \E r \in Requests : WorkerDelete(r)
    \/ \E r \in Requests : WorkerInsert(r)
    \/ \E r \in Requests : WorkerLink(r)
    \/ \E r \in Requests : WorkerReturn(r)
    \/ \E r \in Requests : WorkerFetchReturn(r)
    \/ \E r \in Requests : WorkerStorage(r)
    \/ TTLElapse

SpecFetchWorkers == Init /\ [][NextFetchWorkers]_vars

(***************************************************************************)
(* The same calls made on a nil cache reference.                           *)
(***************************************************************************)
InitNil ==
    /\ cache = NilCache
    /\ opt = [c |-> [newOptimizedInMemoryLogbookCache(0) EXCEPT !.isNil = TRUE],
              value |-> EmptyLogbook, ok |-> FALSE]
    /\ now = 0
    /\ recency = <<>>
    /\ last = NoCall
    /\ InitStore

SpecNil == InitNil /\ [][NextCache]_vars

(***************************************************************************)
(* Package server: the cache as a map alone, before the recency list.  Set *)
(* and Invalidate run under c.mu.Lock() from start to end.  Get reads the  *)
(* map under c.mu.RLock(), releases it, compares the copy of the entry     *)
(* with the clock and then calls Invalidate, which takes c.mu again.       *)
(* History: readBy of an entry is the set of workers whose pending Get     *)
(* read that entry.                                                        *)
(***************************************************************************)
newMapOnlyCache(maxEntries) ==
    [isNil |-> FALSE, entries |-> EmptyMap, maxEntries |-> maxEntries]

\* Set of package server; evict is the key the range loop over c.entries meets first.
mapOnlySet(c, id, lb, ttlArg, t, evict) ==
    IF c.isNil THEN c
    ELSE LET c1 == IF /\ c.maxEntries > 0
                      /\ Cardinality(DOMAIN c.entries) >= c.maxEntries
                      /\ evict \in DOMAIN c.entries
                   THEN [c EXCEPT !.entries = MapDel(c.entries, evict)]
                   ELSE c
         IN [c1 EXCEPT !.entries =
                MapPut(c1.entries, id,
                       [value |-> lb, expiresAt |-> t + effectiveTTL(ttlArg),
                        readBy |-> {}])]

\* Invalidate of package server.
mapOnlyInvalidate(c, id) ==
    IF c.isNil THEN c ELSE [c EXCEPT !.entries = MapDel(c.entries, id)]

\* Get, first part: entry, ok := c.entries[id] between RLock and RUnlock.
MapGetRead(r) ==
    /\ req[r].pc = "idle"
    /\ \E id \in CacheKeys :
         IF id \in DOMAIN cache.entries
         THEN /\ req' = [req EXCEPT ![r] =
                    [IdleRequest EXCEPT !.route = "Get", !.logbookId = id,
                                        !.lb = cache.entries[id].value,
                                        !.expiresAt = cache.entries[id].expiresAt,
                                        !.pc = "expiry"]]
              /\ cache' = [cache EXCEPT !.entries[id].readBy = @ \cup {r}]
         ELSE /\ req' = [req EXCEPT ![r] =
                    [IdleRequest EXCEPT !.route = "Get", !.logbookId = id,
                                        !.pc = "return"]]
              /\ UNCHANGED cache
    /\ UNCHANGED <<now, recency, last, opt, dbVars>>

\* Get, second part: time.Now().After(entry.expiresAt) on the copy, no lock held.
MapGetExpiry(r) ==
    LET q == req[r]
    IN /\ q.pc = "expiry"
       /\ req' = [req EXCEPT ![r] =
              IF now > q.expiresAt
              THEN [q EXCEPT !.pc = "invalidate", !.lb = EmptyLogbook]
              ELSE [q EXCEPT !.pc = "return", !.hit = TRUE]]
       /\ UNCHANGED <<cacheVars, dbVars>>

\* Get, third part: c.Invalidate(id) of the expired branch, under c.mu.Lock().
MapGetInvalidate(r) ==
    LET q == req[r]
    IN /\ q.pc = "invalidate"
       /\ cache' = mapOnlyInvalidate(cache, q.logbookId)
       /\ req' = [req EXCEPT ![r].pc = "return"]
       /\ UNCHANGED <<now, recency, last, opt, dbVars>>

\* Get returns; the worker's pending read is over.
MapGetReturn(r) ==
    LET id == req[r].logbookId
    IN /\ req[r].pc = "return"
       /\ req' = [req EXCEPT ![r] = IdleRequest]
       /\ cache' = IF id \in DOMAIN cache.entries
                   THEN [cache EXCEPT !.entries[id].readBy = @ \ {r}]
                   ELSE cache
       /\ UNCHANGED <<now, recency, last, opt, dbVars>>

\* A whole Set call by a worker that is not inside a Get.
MapSet(r) ==
    /\ req[r].pc = "idle"
    /\ \E id \in CacheKeys, ttl \in ListTTLs, evict \in CacheKeys :
         cache' = mapOnlySet(cache, id, Logbook(id, "TEST", "n", 1), ttl, now, evict)
    /\ UNCHANGED <<now, recency, last, opt, req, dbVars>>

\* A whole Invalidate call by a worker that is not inside a Get.
MapInvalidate(r) ==
    /\ req[r].pc = "idle"
    /\ \E id \in CacheKeys : cache' = mapOnlyInvalidate(cache, id)
    /\ UNCHANGED <<now, recency, last, opt, req, dbVars>>

InitMapOnly ==
    /\ \E k \in 1..MaxCap : cache = newMapOnlyCache(k)
    /\ opt = [c |-> newOptimizedInMemoryLogbookCache(0), value |-> EmptyLogbook,
              ok |-> FALSE]
    /\ now = 0
    /\ recency = <<>>
    /\ last = NoCall
    /\ InitStore

NextMapOnly ==
    \/ \E r \in Requests : MapGetRead(r)
    \/ \E r \in Requests : MapGetExpiry(r)
    \/ \E r \in Requests : MapGetInvalidate(r)
    \/ \E r \in Requests : MapGetReturn(r)
    \/ \E r \in Requests : MapSet(r)
    \/ \E r \in Requests : MapInvalidate(r)
    \/ Tick

SpecMapOnly == InitMapOnly /\ [][NextMapOnly]_vars

(***************************************************************************)
(* Workers that call Get, Set and Invalidate and wait for c.mu, under fair *)
(* scheduling: a goroutine that can run is run in the end, and sync.Mutex  *)
(* hands the lock to a goroutine that keeps waiting for it (starvation     *)
(* mode), so a waiter is not passed over forever.                          *)
(***************************************************************************)
\* Get, Set or Invalidate is called: the worker reaches c.mu.Lock().
WorkerWant(r) ==
    /\ req[r].pc = "idle"
    /\ \E m \in CacheMethods, id \in CacheKeys, lb \in CacheValues :
         req' = [req EXCEPT ![r] =
                    [IdleRequest EXCEPT !.caller = "call", !.route = m, !.logbookId = id,
                                        !.lb = IF m = "Set" THEN lb ELSE EmptyLogbook,
                                        !.pc = "want", !.holds = req[r].holds]]
    /\ UNCHANGED <<cacheVars, dbVars>>

\* The deferred c.mu.Unlock() runs and the call returns to the worker.
WorkerDone(r) ==
    /\ req[r].pc = "unlock"
    /\ req[r].caller = "call"
    /\ req' = [req EXCEPT ![r] = [IdleRequest EXCEPT !.holds = Unlock(req[r]).holds]]
    /\ UNCHANGED <<cacheVars, dbVars>>

NextLive ==
    \/ \E r \in Requests : WorkerWant(r)
    \/ \E r \in Requests : WorkerLock(r)
    \/ \E r \in Requests : WorkerLookup(r)
    \/ \E r \in Requests : WorkerUnlink(r)
    \/ \E r \in Requests : WorkerDelete(r)
    \/ \E r \in Requests : WorkerInsert(r)
    \/ \E r \in Requests : WorkerLink(r)
    \/ \E r \in Requests : WorkerDone(r)
    \/ TTLElapse

FairWorkers ==
    \A r \in Requests :
        /\ SF_vars(WorkerLock(r))
        /\ WF_vars(WorkerLookup(r))
        /\ WF_vars(WorkerUnlink(r))
        /\ WF_vars(WorkerDelete(r))
        /\ WF_vars(WorkerInsert(r))
        /\ WF_vars(WorkerLink(r))
        /\ WF_vars(WorkerDone(r))

SpecLive == Init /\ [][NextLive]_vars /\ FairWorkers

(***************************************************************************)
(* Properties.                                                             *)
(***************************************************************************)
\* What storage says of the credential a request presented.
PasswordOK(t) ==
    t.path = "password" /\ t.envelope /\ ~t.lookupErr /\ t.found /\ t.confirmed
        /\ ~t.hashEmpty /\ t.match

KeyMatches(t) ==
    t.path = "key" /\ t.envelope /\ ~t.malformed /\ ~t.lookupErr /\ t.found
        /\ t.match /\ ~t.idZero

HandlerPcs == {"insert", "register", "tx_logbook", "tx_key", "tx_commit"}

\* The rows request r wrote, committed or pending in its transaction.
RowsWrittenBy(r) ==
    {l \in logbooks : l.by = r} \cup tx[r].logbooks
        \cup {k \in apiKeys : k.by = r} \cup tx[r].apiKeys
        \cup {x \in qsos : x.by = r}

FailureExits == {"InsertLogbook", "ZeroID", "GenerateApiKey", "InsertAPIKey"}

IssuedKeys == {GenerateApiKey(r).fullKey : r \in Requests}

GenericBodies == {jsonInternalError, jsonBadRequest, jsonUnauthorized}

\* C4: the provisioning response carries the full API key only with 201 after Commit
\* succeeded; every other exit, a failed Commit included, answers a generic body
\* that is no key.
C4_KeyOnlyAfterCommit ==
    \A r \in Requests :
        (req[r].route = "register" /\ req[r].pc = "done")
            => /\ req[r].resp.message \in IssuedKeys
                    => /\ req[r].resp.status = StatusCreated
                       /\ tx[r].state = "committed"
               /\ tx[r].state # "committed"
                    => /\ req[r].resp.message \in GenericBodies
                       /\ req[r].resp.status # StatusCreated

\* One attempt was answered its key, another failed at Commit.
C4_Witness ==
    \E r1, r2 \in Requests :
        /\ req[r1].exit = "Created" /\ req[r1].resp.message = GenerateApiKey(r1).fullKey
        /\ req[r2].exit = "Commit" /\ req[r2].resp.status = StatusInternalServerError

\* C5: a cache built with maxEntries = k > 0 never holds more than k entries,
\* whatever Set, Get and Invalidate calls are made.
C5_SizeBounded ==
    /\ cache.maxEntries > 0
    /\ Cardinality(DOMAIN cache.entries) <= cache.maxEntries
    /\ Cardinality(DOMAIN cache.nodes) <= cache.maxEntries

\* A Set into a full cache of capacity MaxCap has just evicted.
C5_Witness ==
    /\ last.op = "Set" /\ last.evicted # {}
    /\ cache.maxEntries = MaxCap
    /\ Cardinality(DOMAIN cache.entries) = MaxCap

\* C6: a Set of a key that is not resident, made at capacity, evicts exactly one
\* entry, the one whose last successful Get or Set is the oldest; the other entries
\* stay as they were and the new key is the most recently used.
C6_EvictsLeastRecentlyUsed ==
    [][\A id \in CacheKeys :
          (/\ id \notin Resident(cache)
           /\ id \in Resident(cache')
           /\ Cardinality(Resident(cache)) = cache.maxEntries)
             => LET victim == recency[Len(recency)]
                IN /\ Resident(cache') = (Resident(cache) \ {victim}) \cup {id}
                   /\ \A k \in Resident(cache) \ {victim} :
                          cache'.entries[k].value = cache.entries[k].value
                            /\ cache'.entries[k].expiresAt = cache.entries[k].expiresAt
                   /\ cache'.head = id
                   /\ ListKeys(cache') = <<id>> \o SubSeq(recency, 1, Len(recency) - 1)]_vars

\* With capacity 2, the Set of key 3 evicted key 2 and left key 1 behind it.
C6_Witness ==
    /\ cache.maxEntries = 2
    /\ last.op = "Set" /\ last.id = 3 /\ last.evicted = {2}
    /\ ListKeys(cache) = <<3, 1>>

FetchPcs == {"fetch", "fetch_db", "fetch_set"}

\* C7: a request on the key path whose matched ApiKeyRecord is not active (revoked
\* or expired) is rejected with 401 even though prefix and secret match: it never
\* reaches the logbook resolution or the handler.
C7_InactiveKeyRejected ==
    \A r \in Requests :
        (/\ req[r].route = "insert"
         /\ req[r].truth.envelope /\ ~req[r].truth.lookupErr
         /\ req[r].truth.found /\ req[r].truth.match /\ ~req[r].truth.active)
            => /\ req[r].pc \notin FetchPcs \cup HandlerPcs
               /\ ~req[r].handlerRan
               /\ req[r].pc = "done" => req[r].resp.status = StatusUnauthorized

\* A QSO was stored for a request that presented a revoked or expired key.
C7_Witness ==
    \E r \in Requests :
        /\ req[r].route = "insert"
        /\ req[r].truth.match /\ ~req[r].truth.active
        /\ req[r].resp = Response(StatusCreated, jsonQsoCreated)
        /\ \E x \in qsos : x.by = r

\* The request passed the envelope check and its authentication failed.
AuthFailed(r) ==
    /\ req[r].pc = "done"
    /\ req[r].truth.envelope
    /\ \/ req[r].route = "register" /\ ~PasswordOK(req[r].truth)
       \/ req[r].route = "insert"
             /\ (~KeyMatches(req[r].truth) \/ req[r].resolveFailed)

\* C8: every authentication failure is answered alike.  On the key path a malformed
\* key, an unknown prefix, a wrong secret, a zero logbook id and a failed logbook
\* resolution get the same response; on the password path an unknown callsign, an
\* unverified account and a wrong password get the same response.
C8_FailuresIndistinguishable ==
    \A r1, r2 \in Requests :
        (AuthFailed(r1) /\ AuthFailed(r2) /\ req[r1].route = req[r2].route)
            => /\ req[r1].resp = req[r2].resp
               /\ req[r1].resp = Response(StatusUnauthorized, jsonUnauthorized)

\* One request failed on a wrong secret, another on the resolution of its logbook.
C8_Witness ==
    \E r1, r2 \in Requests :
        /\ AuthFailed(r1) /\ req[r1].truth.found /\ ~req[r1].truth.match
        /\ AuthFailed(r2) /\ req[r2].resolveFailed

\* C9: an ApiKeyRecord whose logbook_id is 0 never authorizes, even when the secret
\* matches; and fetchLogbookWithCache refuses id 0 with an error before it consults
\* the cache or storage.
C9_ZeroLogbookIDRefused ==
    \A r \in Requests :
        /\ (req[r].route = "insert" /\ req[r].truth.idZero)
              => /\ req[r].pc = "done"
                 /\ ~req[r].handlerRan /\ ~req[r].ctx.IsValid /\ req[r].ctx.Logbook.nil
                 /\ req[r].resp.status \in {StatusBadRequest, StatusUnauthorized}
                 /\ req[r].calls.cacheGet = 0 /\ req[r].calls.cacheSet = 0
                 /\ req[r].calls.fetchLogbook = 0
        /\ (req[r].route = "direct" /\ req[r].logbookId = 0)
              => /\ req[r].pc \in {"fetch", "done"}
                 /\ req[r].calls = ZeroCalls
                 /\ req[r].pc = "done" => req[r].retErr

\* A key of logbook id 0 was presented with its secret and answered 401, and a
\* direct fetch of id 0 has returned.
C9_Witness ==
    \E r1, r2 \in Requests :
        /\ req[r1].route = "insert" /\ req[r1].truth.idZero /\ req[r1].truth.match
        /\ req[r1].resp.status = StatusUnauthorized
        /\ req[r2].route = "direct" /\ req[r2].logbookId = 0 /\ req[r2].pc = "done"

\* C10: the password path lets a request through only if the user lookup succeeded,
\* EmailConfirmed is true and the password verifies against the stored hash;
\* otherwise the answer is Unauthorized, no user is bound and the context stays
\* unauthorized.
C10_PasswordPath ==
    \A r \in Requests :
        req[r].route = "register"
            => /\ (req[r].pc \in HandlerPcs \/ req[r].handlerRan)
                    => /\ ~req[r].truth.lookupErr /\ req[r].truth.found
                       /\ req[r].truth.confirmed /\ req[r].truth.match
                       /\ ~req[r].ctx.User.nil /\ req[r].ctx.IsValid
               /\ AuthFailed(r)
                    => /\ req[r].resp = Response(StatusUnauthorized, jsonUnauthorized)
                       /\ req[r].ctx.User.nil /\ ~req[r].ctx.IsValid
                       /\ ~req[r].handlerRan

\* An unverified account presented its right password and was answered 401, while a
\* verified one went through to the handler.
C10_Witness ==
    \E r1, r2 \in Requests :
        /\ req[r1].route = "register" /\ req[r1].truth.found /\ req[r1].truth.match
        /\ ~req[r1].truth.confirmed /\ req[r1].resp.status = StatusUnauthorized
        /\ req[r2].route = "register" /\ req[r2].handlerRan /\ ~req[r2].ctx.User.nil

(***************************************************************************)
(* Properties of single calls of the cache.  A step that leaves the clock  *)
(* alone and leaves last naming an operation is a call of that operation.  *)
(***************************************************************************)
GetStep(id) == now' = now /\ last'.op = "Get" /\ last'.id = id

SetStep(id) == now' = now /\ last'.op = "Set" /\ last'.id = id

InvalidateStep(id) == now' = now /\ last'.op = "Invalidate" /\ last'.id = id

\* The ttl an entry lives for, given the ttl passed to Set.
TTLOf(ttl) == IF ttl > 0 THEN ttl ELSE defaultLogbookCacheTTL

\* Key id was stored by a Set whose ttl has not run out at time t.
Fresh(id, t) ==
    id \in DOMAIN last.stored
        /\ t <= last.stored[id].at + TTLOf(last.stored[id].ttl)

\* Key id was stored by a Set whose ttl has run out at time t.
Stale(id, t) ==
    id \in DOMAIN last.stored
        /\ t > last.stored[id].at + TTLOf(last.stored[id].ttl)

Others(keys, id) == SelectSeq(keys, LAMBDA k : k # id)

\* The entries other than id are what they were.
OthersUntouched(id) ==
    \A k \in Resident(cache) \ {id} :
        k \in Resident(cache') /\ cache'.entries[k] = cache.entries[k]

C13_GetNeverServesExpired ==
    [][\A id \in CacheKeys :
          /\ (GetStep(id) /\ Stale(id, now))
                => /\ ~last'.ok
                   /\ Resident(cache') = Resident(cache) \ {id}
                   /\ ListKeys(cache') = Others(ListKeys(cache), id)
                   /\ id \notin DOMAIN cache'.nodes
                   /\ OthersUntouched(id)
          /\ (GetStep(id) /\ last'.ok) => Fresh(id, now)]_vars

\* A Get found an expired entry and removed it.
C13_Witness ==
    /\ last.op = "Get" /\ ~last.ok /\ last.evicted = {last.id}
    /\ Resident(cache) # {}

\* C14: Set on a resident key replaces its value and expiry, makes it the most
\* recently used, keeps the number of entries and evicts nothing, at capacity too.
C14_SetExistingUpdates ==
    [][\A id \in CacheKeys :
          (SetStep(id) /\ id \in Resident(cache))
             => /\ Resident(cache') = Resident(cache)
                /\ cache'.entries[id].value = last'.value
                /\ cache'.entries[id].expiresAt = now + TTLOf(last'.ttl)
                /\ ListKeys(cache') = <<id>> \o Others(ListKeys(cache), id)
                /\ OthersUntouched(id)]_vars

\* A Set found its key in a cache that was full, and the cache is still full.
C14_Witness ==
    /\ last.op = "Set" /\ last.ok /\ last.evicted = {}
    /\ cache.maxEntries = MaxCap /\ Cardinality(Resident(cache)) = MaxCap
    /\ cache.head = last.id

\* Key id is resident and was stored by a Set with a negative ttl.
StoredNegative(id) == id \in DOMAIN last.stored /\ last.stored[id].ttl < 0

\* C15, as stated: an entry stored by Set with ttl = -1ns and queried by Get after
\* that duration is reported as a miss and is absent from the size afterwards.
C15_NegativeTTLIsMiss ==
    [][\A id \in CacheKeys :
          (GetStep(id) /\ StoredNegative(id) /\ now >= last.stored[id].at)
             => ~last'.ok /\ id \notin Resident(cache')]_vars

\* C15, amended: an entry stored by Set with ttl = -1ns lives for the default TTL.
\* A Get within the default TTL of that Set is a hit with the stored value; a Get
\* after the default TTL has passed is a miss and removes the entry, so the size
\* afterwards is one less.
C15_NegativeTTLLivesDefault ==
    [][\A id \in CacheKeys :
          (GetStep(id) /\ StoredNegative(id))
             => IF now <= last.stored[id].at + defaultLogbookCacheTTL
                THEN /\ last'.ok /\ last'.value = last.stored[id].value
                     /\ Resident(cache') = Resident(cache)
                ELSE /\ ~last'.ok
                     /\ Resident(cache') = Resident(cache) \ {id}
                     /\ Cardinality(Resident(cache')) = Cardinality(Resident(cache)) - 1]_vars

\* A Get missed an entry that had been stored with a negative ttl, and removed it.
C15_Witness ==
    /\ last.op = "Get" /\ last.ttl < 0
    /\ ~last.ok /\ last.evicted = {last.id}
    /\ now > defaultLogbookCacheTTL

\* C16: Set with a ttl that is zero or negative stores the entry with the default
\* TTL: the key is resident afterwards and expires at the time of the call plus
\* the default TTL.
C16_NonPositiveTTLIsDefault ==
    [][\A id \in CacheKeys :
          (SetStep(id) /\ last'.ttl <= 0)
             => /\ id \in Resident(cache')
                /\ cache'.entries[id].expiresAt = now + defaultLogbookCacheTTL
                /\ cache'.entries[id].value = last'.value]_vars

\* A Set with a negative ttl has stored an entry that expires the default TTL later.
C16_Witness ==
    /\ last.op = "Set" /\ last.ttl < 0
    /\ last.id \in Resident(cache)
    /\ cache.entries[last.id].expiresAt = now + defaultLogbookCacheTTL

\* C17: Invalidate of a key that is not resident changes nothing (map, list, head
\* and tail) and does not fail, so a second Invalidate of the same key leaves the
\* cache as the first one left it.
C17_InvalidateAbsentIsNoOp ==
    [][\A id \in CacheKeys :
          /\ (InvalidateStep(id) /\ id \notin Resident(cache))
                => cache' = cache /\ recency' = recency
          /\ (InvalidateStep(id) /\ last.op = "Invalidate" /\ last.id = id)
                => cache' = cache
          /\ InvalidateStep(id)
                => Invalidate(cache', id) = cache']_vars

\* An Invalidate did not find its key in a cache that holds other keys.
C17_Witness ==
    /\ last.op = "Invalidate" /\ ~last.ok /\ last.evicted = {}
    /\ Resident(cache) # {} /\ last.id \notin Resident(cache)

\* C18: on a nil cache reference every operation is a no-op: Get always reports a
\* miss, Set and Invalidate return without effect, after any sequence of calls.
C18_NilCacheIsNoOp ==
    /\ cache = NilCache
    /\ recency = <<>>
    /\ last.evicted = {} /\ last.stored = EmptyMap
    /\ last.op = "Get" => ~last.ok /\ last.value = EmptyLogbook

\* After time has passed on a nil cache, a Get has reported a miss.
C18_Witness ==
    /\ cache.isNil
    /\ last.op = "Get" /\ ~last.ok
    /\ now > 0

\* No call holds c.mu.
LockFree == \A r \in Requests : req[r].pc = "idle"

\* The map entries and the nodes of the recency list correspond one to one.
Consistent(c) ==
    LET keys == ListKeys(c)
    IN /\ DOMAIN c.nodes = DOMAIN c.entries
       /\ Len(keys) = Cardinality(DOMAIN c.entries)
       /\ {keys[i] : i \in 1..Len(keys)} = DOMAIN c.entries
       /\ keys = <<>> => c.head = Nil /\ c.tail = Nil
       /\ keys # <<>> => c.tail = keys[Len(keys)] /\ c.nodes[c.head].prev = Nil
       /\ \A i \in 1..Len(keys) - 1 : c.nodes[keys[i + 1]].prev = keys[i]
       /\ \A k \in DOMAIN c.entries : c.entries[k].prev = k /\ c.nodes[k].key = k

\* C11: under any interleaving of workers calling Set, Get and Invalidate on one
\* cache, at most one call is inside the lock at a time, and whenever no call holds
\* the lock the map entries and the list nodes correspond one to one.
C11_AtomicUnderLock ==
    /\ Cardinality({r \in Requests : req[r].pc # "idle"}) <= 1
    /\ LockFree => Consistent(cache)

\* Both workers have returned, the cache is full, and an entry was evicted on the
\* way (key 3 is resident with an older key).
C11_Witness ==
    /\ LockFree
    /\ cache.maxEntries = MaxCap
    /\ Cardinality(DOMAIN cache.entries) = MaxCap
    /\ cache.head = 3
    /\ now > 0

\* C19: a request whose callsign or key is empty is answered 400 Bad request by the
\* first middleware: no request context is stored, no table is looked up, nothing is
\* verified, the cache is not asked and no handler runs.
C19_EmptyEnvelopeRejectedFirst ==
    \A r \in Requests :
        (req[r].route \in {"register", "insert"} /\ ~req[r].truth.envelope) =>
            /\ req[r].pc = "done"
            /\ req[r].resp = Response(StatusBadRequest, jsonBadRequest)
            /\ ~req[r].ctx.stored
            /\ ~req[r].handlerRan
            /\ req[r].calls = ZeroCalls

\* One request with an empty envelope was refused on each route.
C19_Witness ==
    \E r1, r2 \in Requests :
        /\ req[r1].route = "register" /\ ~req[r1].truth.envelope
        /\ req[r2].route = "insert" /\ ~req[r2].truth.envelope
        /\ req[r1].resp.status = StatusBadRequest
        /\ req[r2].resp.status = StatusBadRequest

\* C20: a request whose action is not a known action kind is answered 400 before any
\* credential is touched: no user lookup, no API-key lookup, no password or digest
\* verification, and nothing later in the chain runs for it.
C20_UnknownActionBeforeCredentials ==
    \A r \in Requests :
        (req[r].route = "server"
            /\ req[r].action \notin {RegisterLogbookAction, InsertQsoAction}) =>
            /\ req[r].pc = "done"
            /\ req[r].resp = Response(StatusBadRequest, jsonBadRequest)
            /\ req[r].calls = ZeroCalls
            /\ ~req[r].ctx.stored
            /\ ~req[r].handlerRan

\* A request with an unknown action, a callsign and a key that would have passed was
\* refused, next to a request of a known action that went to the users table.
C20_Witness ==
    \E r1, r2 \in Requests :
        /\ req[r1].route = "server" /\ req[r1].action = "DeleteQsoAction"
        /\ req[r1].truth.envelope /\ req[r1].truth.match
        /\ req[r1].resp.status = StatusBadRequest
        /\ req[r2].route = "server" /\ req[r2].action = RegisterLogbookAction
        /\ req[r2].calls.lookups = 1 /\ req[r2].calls.verifies = 1

\* The stages of the request pipeline up to one of the two paths.
Chain(path) == <<"Received", "EnvelopeParsed", "ActionValidated", path>>

\* t is a walk forward from Received that ends, if it has ended, in one terminal:
\* Authorized after a path, or Rejected after any stage.
ForwardTrail(t) ==
    \E path \in {"PasswordPath", "KeyPath"}, n \in 1..4 :
        LET stages == SubSeq(Chain(path), 1, n)
        IN \/ t = stages
           \/ t = Append(stages, "Rejected")
           \/ n = 4 /\ t = Append(stages, "Authorized")

Ended(q) == q.trail # <<>> /\ q.trail[Len(q.trail)] \in {"Authorized", "Rejected"}
IsRejected(q) == q.trail # <<>> /\ q.trail[Len(q.trail)] = "Rejected"

C21_Stages ==
    \A r \in Requests :
        req[r].route = "server" =>
            /\ ForwardTrail(req[r].trail)
            /\ req[r].pc = "done" => Ended(req[r])
            /\ req[r].pc = "fetch" => ~Ended(req[r])
            /\ (req[r].resp # NoResponse) <=> (req[r].pc = "done")
            /\ IsRejected(req[r]) =>
                   /\ req[r].pc = "done" /\ ~req[r].handlerRan
                   /\ tx[r] = NoTx

C21_Steps ==
    \A r \in Requests :
        req[r].route = "server" =>
            /\ req'[r].route = "server"
            /\ Len(req'[r].trail) >= Len(req[r].trail)
            /\ SubSeq(req'[r].trail, 1, Len(req[r].trail)) = req[r].trail
            /\ req[r].resp # NoResponse => req'[r] = req[r]
            /\ IsRejected(req[r]) => req'[r] = req[r] /\ tx'[r] = tx[r]

\* C21: a request passes Received, EnvelopeParsed, ActionValidated and then
\* PasswordPath or KeyPath in that order and ends in exactly one of Authorized and
\* Rejected; once it is Rejected nothing more runs for it (no stage, no lookup, no
\* handler, no transaction), and it is answered exactly once.
C21_ForwardOnly == []C21_Stages /\ [][C21_Steps]_vars

\* One request was rejected on the key path after its logbook could not be
\* resolved, and another was authorized on the password path and its handler ran.
C21_Witness ==
    \E r1, r2 \in Requests :
        /\ req[r1].route = "server" /\ req[r1].resolveFailed
        /\ req[r1].trail = Append(Chain("KeyPath"), "Rejected")
        /\ req[r2].route = "server" /\ req[r2].handlerRan /\ req[r2].pc = "done"
        /\ req[r2].trail = Append(Chain("PasswordPath"), "Authorized")

TxPcs == {"tx_logbook", "tx_key", "tx_commit"}

\* C23: once BeginTx succeeded, every exit of the provisioning handler has called
\* Rollback (after a failed logbook insert, a zero id, a failed key generation or a
\* failed key insert) or Commit before it answers: a transaction is open only while
\* its handler is between BeginTx and the answer.
C23_TxClosedOnExit ==
    \A r \in Requests :
        /\ tx[r].state = "open" <=> req[r].pc \in TxPcs
        /\ req[r].exit \in FailureExits => tx[r].state = "rolledback"
        /\ req[r].exit = "Commit" => tx[r].state = "failed"
        /\ req[r].exit = "Created" => tx[r].state = "committed"
        /\ (req[r].pc = "done" /\ tx[r].state # "none") =>
               /\ req[r].exit \in FailureExits \cup {"Commit", "Created"}
               /\ req[r].resp # NoResponse

\* One attempt was answered after its key generation failed and another after its
\* Commit failed.
C23_Witness ==
    \E r1, r2 \in Requests :
        /\ req[r1].exit = "GenerateApiKey" /\ req[r1].pc = "done"
        /\ tx[r1].state = "rolledback"
        /\ req[r2].exit = "Commit" /\ req[r2].pc = "done"
        /\ tx[r2].state = "failed"

\* The rows of request r that are in a table or pending in another request's
\* transaction.
RowsOutsideTx(r) ==
    {l \in logbooks : l.by = r} \cup {k \in apiKeys : k.by = r}
        \cup UNION {{x \in tx[r2].logbooks \cup tx[r2].apiKeys : x.by = r} :
                       r2 \in Requests \ {r}}

C25_AtMostOnce ==
    \A r \in Requests :
        /\ req[r].calls.lookups <= 1
        /\ req[r].calls.verifies <= 1
        /\ req[r].calls.fetchLogbook <= 1
        /\ req[r].calls.beginTx <= 1
        /\ req[r].calls.insertLogbook <= 1
        /\ req[r].calls.generateKey <= 1
        /\ req[r].calls.insertAPIKey <= 1
        /\ req[r].calls.commit <= 1
        /\ req[r].exit = "Commit" =>
               /\ req[r].pc = "done"
               /\ req[r].resp.status = StatusInternalServerError
               /\ req[r].calls.commit = 1
               /\ req[r].calls.insertLogbook = 1 /\ req[r].calls.insertAPIKey = 1

C25_FailedStaysFailed ==
    \A r \in Requests :
        (req[r].pc = "done" /\ req[r].resp.status # StatusCreated) =>
            req'[r] = req[r] /\ tx'[r] = tx[r]

\* C25: within one request FetchUserByCallsign, FetchAPIKeyByPrefix,
\* FetchLogbookByID, BeginTx, InsertLogbook, key generation, InsertAPIKey and Commit
\* are each called at most once, and a request that has answered a failure (a failed
\* Commit included) does nothing more: no commit and no insert is attempted again.
C25_NoRetry == []C25_AtMostOnce /\ [][C25_FailedStaysFailed]_vars

\* One request was answered after its Commit failed, and one after its key lookup
\* failed in storage.
C25_Witness ==
    \E r1, r2 \in Requests :
        /\ req[r1].exit = "Commit" /\ req[r1].calls.commit = 1
        /\ req[r2].route = "insert" /\ req[r2].truth.lookupErr
        /\ req[r2].calls.lookups = 1 /\ req[r2].resp.status = StatusUnauthorized

\* The cache holds an entry for id that has not expired.
Held(id) ==
    /\ id \in DOMAIN cache.entries
    /\ ~(now > cache.entries[id].expiresAt)

\* The logbook fetchLogbookWithCache handed to its caller.
Bound(q) == IF q.route = "direct" THEN q.lb ELSE q.ctx.Logbook.v

\* fetchLogbookWithCache of request q2 has returned err.
Returned(q2, err) == q2.pc \notin FetchPcs /\ q2.retErr = err

C26_Steps ==
    \A r \in Requests :
        LET q == req[r]
            q2 == req'[r]
            id == q.logbookId
        IN /\ (q.pc = "fetch" /\ q2 # q /\ id # 0) =>
                  IF Held(id)
                  THEN /\ Returned(q2, FALSE)
                       /\ Bound(q2) = cache.entries[id].value
                       /\ q2.calls.fetchLogbook = 0 /\ q2.calls.cacheSet = 0
                  ELSE /\ q2.pc = "fetch_db"
                       /\ q2.calls.fetchLogbook = 0
           /\ (q.pc = "fetch_db" /\ q2 # q) =>
                  /\ q2.calls.fetchLogbook = 1
                  /\ \/ q2.pc = "fetch_set"
                     \/ /\ Returned(q2, TRUE)
                        /\ cache' = cache
                        /\ q2.calls.cacheSet = 0
           /\ (q.pc = "fetch_set" /\ q2 # q) =>
                  /\ Returned(q2, FALSE)
                  /\ Bound(q2) = q.lb
                  /\ id \in DOMAIN cache'.entries
                  /\ cache'.entries[id].value = q.lb
                  /\ cache'.entries[id].expiresAt = now + defaultLogbookCacheTTL
                  /\ q2.calls.fetchLogbook = 1 /\ q2.calls.cacheSet = 1

\* C26: fetchLogbookWithCache returns the value of a non-expired cache entry without
\* calling storage; otherwise it calls FetchLogbookByID exactly once, and on success
\* stores the result in the cache under the id with the default TTL and returns it;
\* on a storage error it returns the error and leaves the cache as it was.
C26_ReadThrough == [][C26_Steps]_vars

\* One direct fetch went to storage and filled the cache, and another was then
\* served from the cache.
C26_Witness ==
    \E r1, r2 \in Requests :
        /\ req[r1].route = "direct" /\ req[r1].pc = "done" /\ ~req[r1].retErr
        /\ req[r1].calls.cacheGet = 1 /\ req[r1].calls.fetchLogbook = 0
        /\ req[r2].route = "direct" /\ req[r2].pc = "done" /\ ~req[r2].retErr
        /\ req[r2].calls.fetchLogbook = 1 /\ req[r2].calls.cacheSet = 1

\* C27: a worker waiting on the storage call of fetchLogbookWithCache does not hold
\* the cache lock, so a Get, Set or Invalidate of another worker can take the lock
\* and complete meanwhile, unless a third worker holds it for its own cache
\* operation; and whoever holds the lock is inside a cache operation, never in a
\* storage call.
C27_NoLockAcrossStorage ==
    /\ Cardinality({r \in Requests : req[r].holds}) <= 1
    /\ \A r \in Requests :
          /\ req[r].pc \in {"idle", "want", "storage"} => ~req[r].holds
          /\ req[r].pc = "storage" =>
                 \A w \in Requests \ {r} :
                     (/\ req[w].pc \in {"idle", "want"}
                      /\ \A x \in Requests \ {r, w} : ~req[x].holds)
                         => TryLock(req, w)

\* While one worker waits on storage, a Set of another worker has run to its end
\* under the lock.
C27_Witness ==
    \E r1, r2 \in Requests :
        /\ req[r1].pc = "storage"
        /\ req[r2].caller = "none" /\ req[r2].route = "Set"
        /\ req[r2].holds /\ req[r2].pc = "unlock"

\* The logbook row of id in storage, as FetchLogbookByIDContext converts it.
Stored(id) ==
    {Logbook(l.ID, l.Callsign, l.Name, l.UserID) : l \in {x \in logbooks : x.ID = id}}

\* Request q has passed authentication.
Authorized(q) == q.pc \in HandlerPcs \/ q.handlerRan

\* C28: with reliable storage the outcome of a request depends on its own credential
\* and its own tenant's rows only, whatever the other requests do to the cache or to
\* their transactions: a key request is authorized exactly when its key matches and
\* the logbook of the key's logbook_id is stored, and it is bound to that stored
\* logbook; a provisioning request is authorized exactly when its password matches,
\* and once its transaction has begun it ends Created with its logbook row and key
\* row committed, unless a row of its own logbook name written by someone else is
\* already stored, in which case it wrote nothing.
C28_TenantsDoNotInterfere ==
    \A r \in Requests :
        LET q == req[r]
            reliable == ~q.fault /\ ~q.truth.lookupErr
        IN /\ q.route = "insert" /\ reliable /\ q.pc \in {"insert", "done"} =>
                /\ Authorized(q) <=>
                       (KeyMatches(q.truth) /\ Stored(q.truth.logbookID) # {})
                /\ Authorized(q) =>
                       /\ ~q.ctx.Logbook.nil
                       /\ q.ctx.Logbook.v \in Stored(q.truth.logbookID)
           /\ q.route = "register" /\ reliable /\ q.pc # "idle" =>
                /\ Authorized(q) <=> PasswordOK(q.truth)
                /\ q.pc = "done" /\ q.calls.beginTx = 1 =>
                       \/ /\ q.exit = "Created"
                          /\ \E l \in logbooks :
                                /\ l.by = r /\ l.Name = q.name
                                /\ \E k \in apiKeys : k.by = r /\ k.LogbookID = l.ID
                       \/ /\ q.exit = "InsertLogbook"
                          /\ \E l \in logbooks : l.by # r /\ l.Name = q.name
                          /\ RowsWrittenBy(r) = {}

\* One provisioning was rolled back on a storage failure after it had written, and
\* the provisioning of another logbook name, begun as well, ended Created with its
\* rows committed.
C28_Witness ==
    \E r1, r2 \in Requests :
        /\ req[r1].route = "register" /\ req[r1].exit = "Created" /\ ~req[r1].fault
        /\ \E l \in logbooks : l.by = r1 /\ l.Name = req[r1].name
        /\ req[r2].route = "register" /\ req[r2].exit = "InsertAPIKey" /\ req[r2].fault
        /\ req[r2].name # req[r1].name
        /\ tx[r2].state = "rolledback"

\* C30: a request authorized on the key path is bound to the logbook whose id is the
\* logbook_id of the api_keys row its key matched, whether the logbook came from the
\* cache or from storage; and every cache entry holds, under id k, a logbook whose
\* own id is k.
C30_BoundLogbookIsTheKeys ==
    /\ \A r \in Requests :
          LET q == req[r]
          IN q.route = "insert" /\ Authorized(q) =>
                /\ q.truth.found /\ q.truth.match
                /\ ~q.ctx.Logbook.nil
                /\ q.ctx.Logbook.v.ID = q.truth.logbookID
    /\ \A k \in DOMAIN cache.entries : cache.entries[k].value.ID = k

\* A key request was authorized with a logbook served from the cache, which another
\* key request had filled from storage.
C30_Witness ==
    \E r1, r2 \in Requests :
        /\ req[r1].route = "insert" /\ Authorized(req[r1])
        /\ req[r1].calls.cacheGet = 1 /\ req[r1].calls.fetchLogbook = 0
        /\ req[r1].ctx.Logbook.v.ID = req[r1].truth.logbookID
        /\ req[r2].route = "insert" /\ Authorized(req[r2])
        /\ req[r2].calls.fetchLogbook = 1 /\ req[r2].calls.cacheSet = 1

(***************************************************************************)
(* Provisioning under cancellation: the request's context can be cancelled, *)
(* or its deadline can pass, at any point of registerLogbookHandler.        *)
(***************************************************************************)
\* The request's context is cancelled or its deadline passes.
ContextDone(r) ==
    /\ req[r].pc \in {"register"} \cup TxPcs
    /\ req[r].cancelledAt = "none"
    /\ req' = [req EXCEPT ![r].cancelledAt = req[r].pc]
    /\ UNCHANGED <<cacheVars, dbVars>>

NextCancel ==
    \/ \E r \in Requests : RegisterRequest(r)
    \/ \E r \in Requests : RegisterBegin(r)
    \/ \E r \in Requests : RegisterInsertLogbook(r)
    \/ \E r \in Requests : RegisterInsertAPIKey(r)
    \/ \E r \in Requests : RegisterCommit(r)
    \/ \E r \in Requests : ContextDone(r)

SpecCancel == Init /\ [][NextCancel]_vars

C31_Steps ==
    /\ now' # now => cache' = cache
    /\ \A k \in Resident(cache) \ Resident(cache') :
          \/ GetStep(k) /\ Stale(k, now)
          \/ InvalidateStep(k)
          \/ \E id \in CacheKeys \ Resident(cache) :
                /\ SetStep(id)
                /\ Cardinality(Resident(cache)) = cache.maxEntries
                /\ k = recency[Len(recency)]
    /\ \A id \in CacheKeys \ Resident(cache) :
          (SetStep(id) /\ Cardinality(Resident(cache)) = cache.maxEntries)
             => /\ Resident(cache') =
                      (Resident(cache) \ {recency[Len(recency)]}) \cup {id}
                /\ \A k \in Resident(cache) \ {recency[Len(recency)]} :
                      cache'.entries[k] = cache.entries[k]

C31_NoExpirySweep == [][C31_Steps]_vars

\* A Set of a new key at capacity has evicted the least recently used entry while
\* another entry, expired by then, stayed resident.
C31_Witness ==
    /\ last.op = "Set" /\ last.evicted # {} /\ ~last.ok
    /\ \E j \in Resident(cache) \ {last.id} : Stale(j, now)
    /\ \A k \in last.evicted : k \in CacheKeys

\* The keys of the recency list, walked from tail along prev.
RECURSIVE WalkBack(_, _, _)
WalkBack(c, node, fuel) ==
    IF node = Nil \/ fuel = 0 \/ node \notin DOMAIN c.nodes THEN <<>>
    ELSE <<c.nodes[node].key>> \o WalkBack(c, c.nodes[node].prev, fuel - 1)

BackKeys(c) == WalkBack(c, c.tail, Cardinality(DOMAIN c.nodes) + 1)

Reverse(keys) == [i \in 1..Len(keys) |-> keys[Len(keys) + 1 - i]]

\* The recency list of c is a doubly-linked list over exactly the map's keys.
WellFormed(c) ==
    LET fwd == ListKeys(c)
    IN /\ (c.head = Nil) <=> (c.tail = Nil)
       /\ (c.head = Nil) <=> (DOMAIN c.entries = {})
       /\ c.head # Nil => c.head \in DOMAIN c.nodes /\ c.nodes[c.head].prev = Nil
       /\ c.tail # Nil => c.tail \in DOMAIN c.nodes /\ c.nodes[c.tail].next = Nil
       /\ BackKeys(c) = Reverse(fwd)
       /\ Len(fwd) = Cardinality(DOMAIN c.entries)
       /\ \A k \in DOMAIN c.entries : Cardinality({i \in 1..Len(fwd) : fwd[i] = k}) = 1

\* An Invalidate leaves the remaining keys in the order they had.
C32_Steps ==
    \A id \in CacheKeys :
        InvalidateStep(id) => ListKeys(cache') = Others(ListKeys(cache), id)

\* C32: in every reachable state the recency list is a well-formed doubly-linked
\* list over exactly the map's keys: head is nil iff tail is nil iff the map is
\* empty, head has no predecessor and tail no successor, the walk along next from
\* head and the walk along prev from tail visit the same nodes in opposite order,
\* one node per key; and an Invalidate of the head, the tail, a middle node or the
\* only node leaves the remaining keys in their previous order.
C32_ListWellFormed == []WellFormed(cache) /\ [][C32_Steps]_vars

\* An Invalidate has just removed the middle node of a list of three.
C32_Witness ==
    /\ last.op = "Invalidate" /\ last.pos = 2 /\ last.evicted = {last.id}
    /\ Len(ListKeys(cache)) = 2
    /\ cache.nodes[cache.head].next = cache.tail
    /\ cache.nodes[cache.tail].prev = cache.head

\* The request asks for the provisioning of a logbook.
Provisioning(q) ==
    q.route = "register" \/ (q.route = "server" /\ q.action = RegisterLogbookAction)

\* The request asks for any other action.
TenantWrite(q) ==
    q.route = "insert" \/ (q.route = "server" /\ q.action # RegisterLogbookAction)

\* The request was let through to a handler.
Passed(q) ==
    \/ q.handlerRan
    \/ q.pc \in HandlerPcs \cup {"dispatch"}
    \/ q.route = "server" /\ q.trail # <<>> /\ q.trail[Len(q.trail)] = "Authorized"

\* The request was turned away by the credential check.
Refused(q) ==
    /\ q.pc = "done" /\ ~q.handlerRan /\ ~q.ctx.IsValid
    /\ q.resp.status \in {StatusBadRequest, StatusUnauthorized}

\* C33: provisioning is authenticated by password only and every other action by
\* API key only.  A request let through for provisioning presented the password of
\* its account and went to the users table only; a request let through for another
\* action presented a stored API key; a stored API key that is not the account's
\* password is refused for provisioning, and the account's password, which is no
\* stored key, is refused for every other action.
C33_PathByAction ==
    \A r \in Requests :
        LET q == req[r]
        IN /\ Provisioning(q) /\ Passed(q) =>
                 /\ PasswordOK(q.truth) /\ q.truth.validPassword
                 /\ ~q.ctx.User.nil /\ q.ctx.Logbook.nil
                 /\ q.calls.cacheGet = 0 /\ q.calls.fetchLogbook = 0
           /\ TenantWrite(q) /\ (Passed(q) \/ q.pc \in FetchPcs) =>
                 /\ KeyMatches(q.truth) /\ q.truth.validKey
                 /\ q.ctx.User.nil
           /\ Provisioning(q) /\ q.truth.validKey /\ ~q.truth.validPassword => Refused(q)
           /\ TenantWrite(q) /\ q.truth.validPassword /\ ~q.truth.validKey => Refused(q)

\* A stored API key was refused for provisioning by one front end, and the account's
\* password was refused for a QSO insert by the other.
C33_Witness ==
    \E r1, r2 \in Requests :
        /\ Provisioning(req[r1]) /\ req[r1].truth.validKey /\ req[r1].truth.envelope
        /\ req[r1].resp.status = StatusUnauthorized
        /\ TenantWrite(req[r2]) /\ req[r2].truth.validPassword
        /\ req[r2].action = InsertQsoAction
        /\ req[r2].resp.status = StatusUnauthorized
        /\ req[r1].route # req[r2].route

\* Every stored QSO carries the id and the callsign of the logbook bound to the
\* request that wrote it, which is the logbook of that request's key.
C34_Rows ==
    \A x \in qsos :
        LET q == req[x.by]
        IN /\ ~q.ctx.Logbook.nil
           /\ x.LogbookID = q.ctx.Logbook.v.ID
           /\ x.StationCallsign = q.ctx.Logbook.v.Callsign
           /\ x.LogbookID = q.truth.logbookID

\* The insert-QSO handler of request r returns.
C34_Steps ==
    \A r \in Requests :
        (req[r].pc = "insert" /\ req'[r].pc = "done") =>
            LET rc == req[r].ctx
            IN /\ (/\ ~rc.Logbook.nil /\ ~rc.Request.Qso.nil
                    /\ rc.Request.Qso.v.StationCallsign # rc.Logbook.v.Callsign)
                      => /\ req'[r].resp.status = StatusBadRequest
                         /\ qsos' = qsos
               /\ \A x \in qsos' \ qsos :
                      /\ x.by = r
                      /\ x.LogbookID = rc.Logbook.v.ID
                      /\ x.StationCallsign = rc.Request.Qso.v.StationCallsign
                      /\ x.StationCallsign = rc.Logbook.v.Callsign

\* C34: every QSO the insert-QSO handler inserts carries the internal id of the
\* logbook bound to the authenticated key, never the id of the request payload, and
\* a station callsign equal to that logbook's callsign; when the callsigns differ
\* the request is answered Bad Request and nothing is inserted.
C34_QsoBoundToLogbook == []C34_Rows /\ [][C34_Steps]_vars

\* One QSO was stored under logbook 1 although its payload named another logbook,
\* and another request was answered the callsign mismatch and stored nothing.
C34_Witness ==
    \E r1, r2 \in Requests :
        /\ \E x \in qsos : x.by = r1 /\ x.LogbookID = 1 /\ x.StationCallsign = "W1AW"
        /\ \A p \in QsoPayloads \cup ServerQsos :
              (~p.nil /\ p.v.StationCallsign = "W1AW" /\ ValidQso(p.v)) => p.v.LogbookID # 1
        /\ req[r2].handlerRan /\ req[r2].resp.message = jsonCallsignMismatch
        /\ \A x \in qsos : x.by # r2

\* C35: given the same calls with the same capacity and the same clock, the
\* optimized cache and the baseline cache return the same result for every Get and
\* hold the same keys with the same values in the same recency order.
C35_OptimizedEquivalent ==
    /\ opt.c.isNil = cache.isNil
    /\ opt.c.maxEntries = cache.maxEntries
    /\ DOMAIN opt.c.entries = DOMAIN cache.entries
    /\ \A k \in DOMAIN cache.entries : opt.c.entries[k].value = cache.entries[k].value
    /\ optimizedListKeys(opt.c) = ListKeys(cache)
    /\ last.op = "Get" => opt.ok = last.ok /\ opt.value = last.value

\* Both caches hold three keys, and a Get of the key stored first has just been
\* answered by both and has made it the most recently used of both.
C35_Witness ==
    /\ last.op = "Get" /\ last.ok /\ opt.ok /\ opt.value = last.value
    /\ Len(ListKeys(cache)) = 3
    /\ opt.c.head = last.id /\ cache.head = last.id
    /\ \A k \in Resident(cache) \ {last.id} :
          last.stored[last.id].at < last.stored[k].at

\* A step of a cache without a limit: a Set adds its key and removes none, and an
\* entry leaves only by a Get or an Invalidate of its own key.
C36_Steps ==
    cache.maxEntries <= 0 =>
        /\ cache'.maxEntries = cache.maxEntries
        /\ \A id \in CacheKeys :
              SetStep(id) => /\ Resident(cache') = Resident(cache) \cup {id}
                             /\ last'.evicted = {}
        /\ \A k \in Resident(cache) \ Resident(cache') : GetStep(k) \/ InvalidateStep(k)

\* C36: a cache whose maxEntries is zero or negative has no capacity limit: Set
\* never evicts, so that after Sets of n distinct keys all n are resident.
C36_NoLimitNeverEvicts == [][C36_Steps]_vars

\* A cache without a limit holds every key the calls use, the last one just stored.
C36_Witness ==
    /\ cache.maxEntries <= 0
    /\ last.op = "Set" /\ ~last.ok
    /\ Resident(cache) = CacheKeys
    /\ Len(ListKeys(cache)) = Cardinality(CacheKeys)

(***************************************************************************)
(* C37: in the map-only cache a Get that found its key expired removes     *)
(* only the entry it read: its Invalidate never deletes an entry for that  *)
(* key which a concurrent Set stored after the Get read the map.           *)
(***************************************************************************)
C37_Steps ==
    \A r \in Requests :
        (req[r].pc = "invalidate" /\ req'[r].pc = "return") =>
            LET k == req[r].logbookId
            IN (k \in DOMAIN cache.entries /\ k \notin DOMAIN cache'.entries)
                   => r \in cache.entries[k].readBy

C37_GetRemovesOnlyWhatItRead == [][C37_Steps]_vars

\* A Get past its expiry test is about to delete a live entry that a Set stored
\* after the Get read the map.
C37_Witness ==
    \E r \in Requests :
        /\ req[r].pc = "invalidate"
        /\ req[r].logbookId \in DOMAIN cache.entries
        /\ r \notin cache.entries[req[r].logbookId].readBy
        /\ now <= cache.entries[req[r].logbookId].expiresAt

(***************************************************************************)
(* C38: the logbook row that provisioning inserts is owned by the user who *)
(* was authenticated on the password path of that same request, whatever   *)
(* owner the request payload names.                                        *)
(***************************************************************************)
\* The account a request's callsign names.
AccountOf(callsign) == {u \in users : u.Callsign = callsign}

C38_Rows ==
    \A l \in logbooks :
        l.by # 0 => /\ req[l.by].truth.path = "password"
                    /\ req[l.by].truth.validPassword
                    /\ ~req[l.by].ctx.User.nil
                    /\ l.UserID = req[l.by].ctx.User.ID

C38_Steps ==
    \A r \in Requests :
        \A row \in tx'[r].logbooks \ tx[r].logbooks :
            /\ row.by = r
            /\ req[r].truth.validPassword
            /\ \E u \in AccountOf(req[r].ctx.Request.Callsign) : row.UserID = u.ID

C38_OwnerIsAuthenticatedUser == []C38_Rows /\ [][C38_Steps]_vars

\* A payload naming another owner was inserted under the authenticated user's id.
C38_Witness ==
    \E r \in Requests :
        /\ req[r].pc = "tx_key"
        /\ ~req[r].ctx.Request.Logbook.nil
        /\ req[r].ctx.Request.Logbook.v.UserID = 7
        /\ \E row \in tx[r].logbooks :
              row.by = r /\ row.UserID = req[r].ctx.User.ID /\ row.UserID # 7

(***************************************************************************)
(* C39: on the key path the context's IsValid flag is true only when a     *)
(* logbook is bound to the context, and every request that ends rejected,  *)
(* also one whose logbook resolution failed after its key was validated,   *)
(* ends with the flag false.                                               *)
(***************************************************************************)
\* The request went down the key path and was answered without its handler running.
KeyPathRejected(q) == q.route = "insert" /\ q.pc = "done" /\ ~q.handlerRan

C39_FlagOnlyWithLogbook ==
    \A r \in Requests :
        req[r].route = "insert" =>
            /\ req[r].ctx.IsValid => ~req[r].ctx.Logbook.nil
            /\ KeyPathRejected(req[r]) => ~req[r].ctx.IsValid

\* A request whose key was valid and whose logbook resolution failed was answered
\* 401 and its context says it is authorized, with no logbook bound.
C39_Witness ==
    \E r \in Requests :
        /\ KeyPathRejected(req[r])
        /\ req[r].resolveFailed
        /\ req[r].resp = Response(StatusUnauthorized, jsonUnauthorized)
        /\ req[r].ctx.IsValid
        /\ req[r].ctx.Logbook.nil

(***************************************************************************)
(* C40: with workers calling Get, Set and Invalidate concurrently on one   *)
(* cache, every call returns in the end under fair scheduling: the lock is *)
(* released on every path of every operation and is never acquired by a    *)
(* worker that holds it, so no worker blocks forever.                      *)
(***************************************************************************)
CallPcs == {"want", "locked", "rm_unlink", "mv_unlink", "rm_delete", "ins_map", "link",
            "unlock"}

InCall(r) == req[r].pc \in CallPcs

\* Outside a call, and while it waits for the lock, a worker does not hold it;
\* at most one worker holds it.
C40_Released ==
    /\ \A r \in Requests : (~InCall(r) \/ req[r].pc = "want") => ~req[r].holds
    /\ \A r1, r2 \in Requests : (req[r1].holds /\ req[r2].holds) => r1 = r2

\* The lock is taken only from the wait, by a worker that does not hold it.
C40_NoReentry ==
    \A r \in Requests :
        (req'[r].holds /\ ~req[r].holds) => (req[r].pc = "want" /\ req'[r].pc = "locked")

C40_EveryCallReturns ==
    /\ []C40_Released
    /\ [][C40_NoReentry]_vars
    /\ \A r \in Requests : InCall(r) ~> ~InCall(r)

\* One worker waits for the lock while the other, holding it, is removing an entry.
C40_Witness ==
    \E r1, r2 \in Requests :
        /\ req[r1].pc = "want"
        /\ req[r2].holds /\ req[r2].pc = "rm_delete"

====
